---- MODULE Spec2Model ----
(***************************************************************************)
(* Model of the context selection core of graph-of-context-ui:             *)
(*   backend/app/goc_core/context_ops.py   (ordered_unique,                *)
(*       compile_active_context_records, expand_closure_from_edges)        *)
(*   backend/app/goc_core/unfold_planner.py (plan_unfold_candidates,       *)
(*       apply_unfold_seed_selection)                                      *)
(*                                                                         *)
(* Node ids are modelled as the naturals 1..3: their numeric order stands  *)
(* for the lexicographic order of the id strings.  The id 0 stands for a   *)
(* falsy entry of an id list or edge endpoint ("", None, a non-string).    *)
(* An Optional[int] is a sequence: << >> is None, <<n>> is the integer n.  *)
(***************************************************************************)
EXTENDS Integers, Sequences, FiniteSets, TLC

VARIABLES closure, refused, compile, plan, apply, hier, embed, ctx, dedupe

vars == <<closure, refused, compile, plan, apply, hier, embed, ctx, dedupe>>

(***************************************************************************)
(* Bounds of the model and constants of the program.                       *)
(***************************************************************************)
MaxEdges == 2
MaxCap == 2
MaxRepeat == 101
MaxActive == 3
MaxPartEdges == 1
MaxBudget == 4
TraceCap == 200

Ids == {1, 2, 3}
IdsOrEmpty == Ids \cup {0}

(***************************************************************************)
(* Generic helpers over sequences.                                         *)
(***************************************************************************)
Range(s) == {s[i] : i \in 1..Len(s)}

\* The ids of the nodes created after the thread's first three, in the order
\* they are handed out, and every id a thread can hold.
NewIds == <<4, 5>>
AllIds == Ids \cup Range(NewIds)

NoDup(s) == \A i, j \in 1..Len(s) : i # j => s[i] # s[j]

Min2(a, b) == IF a < b THEN a ELSE b

Max2(a, b) == IF a > b THEN a ELSE b

\* Python's s[:n] for n >= 0.
Prefix(s, n) == SubSeq(s, 1, Min2(n, Len(s)))

\* The ids in descending order.
RECURSIVE SortedIdsDescending(_)
SortedIdsDescending(S) ==
    IF S = {} THEN << >>
    ELSE LET m == CHOOSE x \in S : \A y \in S : x >= y
         IN <<m>> \o SortedIdsDescending(S \ {m})

\* sorted(S) for a set of ids: ascending.
RECURSIVE SortedIds(_)
SortedIds(S) ==
    IF S = {} THEN << >>
    ELSE LET m == CHOOSE x \in S : \A y \in S : x <= y
         IN <<m>> \o SortedIds(S \ {m})

(***************************************************************************)
(* ordered_unique: the first occurrence of every truthy string id.  A      *)
(* positive integer stands for a non-empty string, 0 for the empty string *)
(* and a negative integer for an entry that is no string (None, a number, *)
(* a list).                                                                *)
(***************************************************************************)
\* isinstance(nid, str)
IsStr(nid) == nid >= 0

RECURSIVE OrderedUniqueFrom(_, _)
OrderedUniqueFrom(ids, seen) ==
    IF ids = << >> THEN << >>
    ELSE LET nid == Head(ids) IN
         IF ~IsStr(nid) \/ nid = 0 \/ nid \in seen
         THEN OrderedUniqueFrom(Tail(ids), seen)
         ELSE <<nid>> \o OrderedUniqueFrom(Tail(ids), seen \cup {nid})

\* The last occurrence of every truthy string id, in the order of the last
\* occurrences.
ordered_unique_last(ids) ==
    LET rev(s) == [i \in 1..Len(s) |-> s[Len(s) + 1 - i]]
    IN rev(OrderedUniqueFrom(rev(ids), {}))

ordered_unique(ids) == OrderedUniqueFrom(ids, {})


(***************************************************************************)
(* expand_closure_from_edges.  A call is a frame: the arguments, the       *)
(* locals of the function body, the position pc and the returned dict.     *)
(* pending holds the _offer calls left in the two for-loops of the node    *)
(* cur taken from the queue: the out-neighbours, then the in-neighbours.   *)
(***************************************************************************)
Edge(u, v, t) == [from_id |-> u, to_id |-> v, type |-> t]

EdgeTypeNames == <<"", "DEPENDS", "FOLDS", "HAS_PART", "NEXT", "REFERENCES", "SPLIT_FROM">>

\* The position of a type among the type strings in lexicographic order.
TypeRank(t) == CHOOSE i \in 1..Len(EdgeTypeNames) : EdgeTypeNames[i] = t

\* sorted(allowed) for a set of type strings.
RECURSIVE SortedTypes(_)
SortedTypes(S) ==
    IF S = {} THEN << >>
    ELSE LET m == CHOOSE x \in S : \A y \in S : TypeRank(x) <= TypeRank(y)
         IN <<m>> \o SortedTypes(S \ {m})

\* The adjacency list left in input order.
SortAdjUnsorted(s) == s

\* Every adjacency entry <<neighbour, type>>, ascending in (x[0], x[1]).
AdjKeys ==
    [k \in 1..(Cardinality(AllIds) * Len(EdgeTypeNames)) |->
        <<((k - 1) \div Len(EdgeTypeNames)) + 1,
          EdgeTypeNames[((k - 1) % Len(EdgeTypeNames)) + 1]>>]

RECURSIVE GatherByKey(_, _)
GatherByKey(keys, s) ==
    IF keys = << >> THEN << >>
    ELSE SelectSeq(s, LAMBDA x : x = Head(keys)) \o GatherByKey(Tail(keys), s)

\* sorted(adj[k], key=lambda x: (x[0], x[1])): the entries with the least
\* key first; entries with equal keys are equal, so their order is moot.
SortAdj(s) == GatherByKey(AdjKeys, s)

\* The edges the adjacency loop keeps: allowed type, both endpoints truthy.
EdgeKept(e, allowed) == e.type \in allowed /\ e.from_id # 0 /\ e.to_id # 0

\* out_adj[u], in input order, before the sort.
OutAdjRaw(edges, allowed, u) ==
    LET kept == SelectSeq(edges, LAMBDA e : EdgeKept(e, allowed) /\ e.from_id = u)
    IN [i \in 1..Len(kept) |-> <<kept[i].to_id, kept[i].type>>]

\* in_adj[v], in input order, before the sort.
InAdjRaw(edges, allowed, v) ==
    LET kept == SelectSeq(edges, LAMBDA e : EdgeKept(e, allowed) /\ e.to_id = v)
    IN [i \in 1..Len(kept) |-> <<kept[i].from_id, kept[i].type>>]

EmptyResult ==
    [ordered_ids |-> << >>, seed_ids |-> << >>, closure_added_ids |-> << >>,
     visited_edge_count |-> 0, truncated |-> FALSE, max_nodes |-> << >>,
     allowed_types |-> << >>, direction |-> "", edge_trace |-> << >>]

\* The frame of a call that has not run yet.
NewFrame(seed_ids, edges, allowed_types, max_nodes, direction) ==
    [pc |-> "start",
     seed_ids |-> seed_ids, edges |-> edges, allowed_types |-> allowed_types,
     max_nodes |-> max_nodes, direction_arg |-> direction, direction |-> direction,
     allowed |-> {}, seed_order |-> << >>,
     out_adj |-> [n \in AllIds |-> << >>], in_adj |-> [n \in AllIds |-> << >>],
     visited |-> {}, q |-> << >>, edge_trace |-> << >>, truncated |-> FALSE,
     pending |-> << >>, result |-> EmptyResult]

\* Line 110: the allowed set, empty strings dropped.
AllowedSet(allowed_types) == {t \in Range(allowed_types) : t # ""}

\* An early return that looks at the seeds alone.
EarlyReturnSeedsOnly(f) == ordered_unique(f.seed_ids) = << >>

\* Line 112: not seed_order or not allowed.
EarlyReturn(f) ==
    ordered_unique(f.seed_ids) = << >> \/ AllowedSet(f.allowed_types) = {}

\* Lines 110-148: the early return, or the adjacency and the BFS locals.
StartStep(f) ==
    LET allowed == AllowedSet(f.allowed_types)
        seed_order == ordered_unique(f.seed_ids)
    IN IF EarlyReturn(f)
       THEN [f EXCEPT !.pc = "done", !.allowed = allowed, !.seed_order = seed_order,
                      !.result = [ordered_ids |-> seed_order,
                                  seed_ids |-> seed_order,
                                  closure_added_ids |-> << >>,
                                  visited_edge_count |-> 0,
                                  truncated |-> FALSE,
                                  max_nodes |-> f.max_nodes,
                                  allowed_types |-> SortedTypes(allowed),
                                  direction |-> f.direction,
                                  edge_trace |-> << >>]]
       ELSE [f EXCEPT !.pc = "loop", !.allowed = allowed, !.seed_order = seed_order,
                      !.direction = IF f.direction \in {"out", "in", "both"}
                                    THEN f.direction ELSE "out",
                      !.out_adj = [n \in AllIds |-> SortAdj(OutAdjRaw(f.edges, allowed, n))],
                      !.in_adj = [n \in AllIds |-> SortAdj(InAdjRaw(f.edges, allowed, n))],
                      !.visited = Range(seed_order),
                      !.q = seed_order,
                      !.edge_trace = << >>,
                      !.truncated = FALSE]

\* Lines 160-171: cur = q.popleft() and the _offer calls of its two loops.
PopStep(f) ==
    LET cur == Head(f.q)
        outs == IF f.direction \in {"out", "both"}
                THEN [i \in 1..Len(f.out_adj[cur]) |->
                        <<cur, f.out_adj[cur][i][1], f.out_adj[cur][i][2], "out">>]
                ELSE << >>
        ins == IF f.direction \in {"in", "both"}
               THEN [i \in 1..Len(f.in_adj[cur]) |->
                       <<f.in_adj[cur][i][1], cur, f.in_adj[cur][i][2], "in">>]
               ELSE << >>
    IN [f EXCEPT !.q = Tail(f.q), !.pending = outs \o ins]

\* Line 152: the cap is set and reached and dst is new.
OfferRefused(f, dst) ==
    /\ f.max_nodes # << >>
    /\ Cardinality(f.visited) >= f.max_nodes[1]
    /\ dst \notin f.visited

\* _offer with dst put on the queue whether or not it was visited.
OfferStepEnqueueingAgain(f) ==
    LET o == Head(f.pending)
        src == o[1]
        dst == o[2]
    IN IF OfferRefused(f, dst)
       THEN [f EXCEPT !.truncated = TRUE]
       ELSE [f EXCEPT !.edge_trace = Append(f.edge_trace,
                                        [from |-> src, to |-> dst, type |-> o[3], dir |-> o[4]]),
                      !.visited = f.visited \cup {dst},
                      !.q = Append(f.q, dst),
                      !.pending = Tail(f.pending)]

\* _offer with the refused edge put on the trace.
OfferStepRecordingRefused(f) ==
    LET o == Head(f.pending)
        src == o[1]
        dst == o[2]
        rec == [from |-> src, to |-> dst, type |-> o[3], dir |-> o[4]]
    IN IF OfferRefused(f, dst)
       THEN [f EXCEPT !.truncated = TRUE, !.edge_trace = Append(f.edge_trace, rec)]
       ELSE [f EXCEPT !.edge_trace = Append(f.edge_trace, rec),
                      !.visited = f.visited \cup {dst},
                      !.q = IF dst \in f.visited THEN f.q ELSE Append(f.q, dst),
                      !.pending = Tail(f.pending)]

\* Lines 150-158: _offer(src, dst, etype, rel) for the first pending call.
OfferStep(f) ==
    LET o == Head(f.pending)
        src == o[1]
        dst == o[2]
    IN IF OfferRefused(f, dst)
       THEN [f EXCEPT !.truncated = TRUE]
       ELSE [f EXCEPT !.edge_trace = Append(f.edge_trace,
                                        [from |-> src, to |-> dst, type |-> o[3], dir |-> o[4]]),
                      !.visited = f.visited \cup {dst},
                      !.q = IF dst \in f.visited THEN f.q ELSE Append(f.q, dst),
                      !.pending = Tail(f.pending)]

\* The length of the trace as returned.
VisitedEdgeCountOfReturnedTrace(f) == Len(Prefix(f.edge_trace, TraceCap))

\* Line 182: len(edge_trace), of the whole local list.
VisitedEdgeCount(f) == Len(f.edge_trace)

\* Lines 177-188: the returned dict.
FinishStep(f) ==
    LET seedset == Range(f.seed_order)
        ordered == f.seed_order \o SelectSeq(SortedIds(f.visited), LAMBDA nid : nid \notin seedset)
    IN [f EXCEPT !.pc = "done",
                 !.result = [ordered_ids |-> ordered,
                             seed_ids |-> f.seed_order,
                             closure_added_ids |-> SelectSeq(ordered, LAMBDA nid : nid \notin seedset),
                             visited_edge_count |-> VisitedEdgeCount(f),
                             truncated |-> f.truncated,
                             max_nodes |-> f.max_nodes,
                             allowed_types |-> SortedTypes(f.allowed),
                             direction |-> f.direction,
                             edge_trace |-> Prefix(f.edge_trace, TraceCap)]]

\* Which step the body takes next in a frame that has not returned.
CanOffer(f) == f.pc = "loop" /\ ~f.truncated /\ f.pending # << >>
CanPop(f) == f.pc = "loop" /\ ~f.truncated /\ f.pending = << >> /\ f.q # << >>
CanFinish(f) == f.pc = "loop" /\ (f.truncated \/ (f.pending = << >> /\ f.q = << >>))

RECURSIVE RunFrame(_)
RunFrame(f) ==
    IF f.pc = "done" THEN f
    ELSE IF f.pc = "start" THEN RunFrame(StartStep(f))
    ELSE IF CanOffer(f) THEN RunFrame(OfferStep(f))
    ELSE IF CanPop(f) THEN RunFrame(PopStep(f))
    ELSE RunFrame(FinishStep(f))

\* The function as its callers see it: arguments to returned dict.
expand_closure_from_edges(seed_ids, edges, allowed_types, max_nodes, direction) ==
    RunFrame(NewFrame(seed_ids, edges, allowed_types, max_nodes, direction)).result

(***************************************************************************)
(* compile_active_context_records.  A record is [id, parent_id]: the id    *)
(* and the parent_id of its payload (0: no payload parent_id, or one that  *)
(* is not a non-empty string).  The rendered text is kept as parts, the    *)
(* ids of the blocks joined into it, in order.                             *)
(***************************************************************************)
Record(id, parent_id) == [id |-> id, parent_id |-> parent_id]

\* Line 40: the keys of by_id.
RecordIds(records) == {records[i].id : i \in 1..Len(records)} \ {0}

\* Line 40: by_id[nid]; of several records with one id the last one stays.
ById(records, nid) ==
    records[CHOOSE i \in 1..Len(records) :
               /\ records[i].id = nid
               /\ \A j \in (i + 1)..Len(records) : records[j].id # nid]

\* active_ids taken as given, without ordered_unique.
ActiveInputIdsNoDedup(records, active_ids) ==
    SelectSeq(active_ids, LAMBDA nid : nid \in RecordIds(records))

\* Line 41: ordered_ids.
ActiveInputIds(records, active_ids) ==
    SelectSeq(ordered_unique(active_ids), LAMBDA nid : nid \in RecordIds(records))

\* Lines 48-53: the children a parent gets from payload parent_id.
PayloadChildren(records, ordered_ids, parent) ==
    {nid \in Range(ordered_ids) :
        /\ ById(records, nid).parent_id # 0
        /\ ById(records, nid).parent_id \in Range(ordered_ids)
        /\ ById(records, nid).parent_id = parent}

\* Lines 55-60: an edge that adds its to_id to the children of its from_id.
PartEdgeCounts(e, active_set) ==
    /\ e.type = "HAS_PART"
    /\ e.from_id \in active_set /\ e.to_id \in active_set
    /\ e.from_id # 0 /\ e.to_id # 0

\* Lines 55-62: the children a parent gets from HAS_PART edges.
EdgeChildren(edges, ordered_ids, parent) ==
    {edges[i].to_id :
        i \in {j \in 1..Len(edges) : /\ PartEdgeCounts(edges[j], Range(ordered_ids))
                                     /\ edges[j].from_id = parent}}

\* Lines 45-62: parent_to_children[parent].
ChildrenOf(records, edges, ordered_ids, parent) ==
    PayloadChildren(records, ordered_ids, parent) \cup EdgeChildren(edges, ordered_ids, parent)

\* Lines 46-62: parent_sources[parent], payload entries first, then edges.
SourcesOf(records, edges, ordered_ids, parent) ==
    LET fromPayload == SelectSeq(ordered_ids,
                                 LAMBDA nid : nid \in PayloadChildren(records, ordered_ids, parent))
        fromEdges == SelectSeq(edges,
                               LAMBDA e : PartEdgeCounts(e, Range(ordered_ids)) /\ e.from_id = parent)
    IN [i \in 1..Len(fromPayload) |-> [child_id |-> fromPayload[i], source |-> "payload.parent_id"]]
       \o [i \in 1..Len(fromEdges) |-> [child_id |-> fromEdges[i].to_id, source |-> "edge.HAS_PART"]]

\* Lines 40-94: the explain dict and the blocks of the text.
compile_active_context_records(records, active_ids, edges) ==
    LET ordered_ids == ActiveInputIds(records, active_ids)
        excluded_parent_ids ==
            SelectSeq(ordered_ids,
                      LAMBDA nid : ChildrenOf(records, edges, ordered_ids, nid) # {})
        kept == SelectSeq(ordered_ids, LAMBDA nid : nid \notin Range(excluded_parent_ids))
        parents == {nid \in Range(ordered_ids) :
                       ChildrenOf(records, edges, ordered_ids, nid) # {}}
    IN [parts |-> kept,
        explain |->
            [active_input_ids |-> ordered_ids,
             active_input_count |-> Len(ordered_ids),
             excluded_parent_ids |-> excluded_parent_ids,
             kept_node_ids |-> kept,
             kept_node_count |-> Len(kept),
             parent_to_children |->
                 [nid \in parents |-> SortedIds(ChildrenOf(records, edges, ordered_ids, nid))],
             parent_sources |->
                 [nid \in parents |-> SourcesOf(records, edges, ordered_ids, nid)]]]

\* A call of the compiler: its arguments, and what it returned.
NoCompile == [pc |-> "idle", records |-> << >>, active_ids |-> << >>, edges |-> << >>,
              returned |-> << >>]

(***************************************************************************)
(* The inputs of the compiler calls explored.                              *)
(***************************************************************************)
\* One record per id of a set of ids, in ascending id order, any parent_id.
RecordListsOver(S) ==
    {[i \in 1..Cardinality(S) |-> Record(SortedIds(S)[i], par[SortedIds(S)[i]])] :
        par \in [S -> IdsOrEmpty]}

\* Records of any subset of the ids; lists with a record without id and
\* with two records of one id.
RecordLists ==
    UNION {RecordListsOver(S) : S \in SUBSET Ids}
    \cup {<<Record(0, 1), Record(1, 0), Record(2, 1)>>,
          <<Record(1, 2), Record(2, 0), Record(1, 0)>>,
          <<Record(2, 1), Record(1, 0), Record(2, 0)>>}

SeqsUpTo(S, n) == UNION {[1..k -> S] : k \in 0..n}

\* Id lists of at most MaxActive entries, and some with a falsy entry.
ActiveLists == SeqsUpTo(Ids, MaxActive) \cup {<<0>>, <<0, 1>>, <<2, 0, 2>>}

PartEdgeUniverse ==
    <<Edge(1, 2, "HAS_PART"), Edge(2, 1, "HAS_PART"), Edge(2, 3, "HAS_PART"),
      Edge(3, 3, "HAS_PART"), Edge(1, 3, "DEPENDS"), Edge(0, 1, "HAS_PART")>>

PartEdgeLists ==
    UNION {{[i \in 1..n |-> PartEdgeUniverse[ix[i]]] :
              ix \in {jx \in [1..n -> 1..Len(PartEdgeUniverse)] :
                        \A i \in 1..n : \A j \in i..n : jx[i] <= jx[j]}} :
           n \in 0..MaxPartEdges}

(***************************************************************************)
(* unfold_planner.py.  A text is [chars, tokens, head]: the length of the  *)
(* stripped text, its lowercased _TOKEN_RE matches in order, and the terms *)
(* found as substrings of its first 240 characters.  A query is the        *)
(* sequence of its lowercased _TOKEN_RE matches.  Scores are counted in    *)
(* ten-thousandths (round(score, 4)), marginal ratios in millionths        *)
(* (round(ratio, 6)).  A node is [id, text]; the seed_type and preview of  *)
(* a candidate, which only echo the node, are left out.                    *)
(***************************************************************************)
Text(chars, tokens, head) == [chars |-> chars, tokens |-> tokens, head |-> head]

Node(id, text) == [id |-> id, text |-> text]

\* Lines 11-14: the English entries of _STOPWORDS.
StopWords ==
    {"the", "and", "for", "that", "with", "this", "from", "into", "have", "will", "your"}

\* Lines 17-22: estimate_tokens.
estimate_tokens(text) ==
    IF text.chars = 0 THEN 0 ELSE Max2(1, (text.chars + 3) \div 4)

\* Lines 25-33: tokenize_query, over the matches of the query.
RECURSIVE TokenizeFrom(_, _)
TokenizeFrom(toks, seen) ==
    IF toks = << >> THEN << >>
    ELSE IF Head(toks) \in StopWords \/ Head(toks) \in seen
         THEN TokenizeFrom(Tail(toks), seen)
         ELSE <<Head(toks)>> \o TokenizeFrom(Tail(toks), seen \cup {Head(toks)})

tokenize_query(query) == TokenizeFrom(query, {})

\* counts.get(term, 0)
TermFrequency(text, term) ==
    Cardinality({i \in 1..Len(text.tokens) : text.tokens[i] = term})

\* Lines 42-49: what the term at position idx (from 1) adds to the score.
TermScore(query_terms, idx, text) ==
    LET tf == TermFrequency(text, query_terms[idx])
    IN IF tf <= 0 THEN 0
       ELSE (30000 \div idx) + Min2(25000, 6000 * tf)
            + (IF query_terms[idx] \in text.head THEN 5000 ELSE 0)

RECURSIVE ScoreUpTo(_, _, _)
ScoreUpTo(query_terms, n, text) ==
    IF n = 0 THEN 0
    ELSE ScoreUpTo(query_terms, n - 1, text) + TermScore(query_terms, n, text)

\* Lines 36-50: score_text.
score_text(query_terms, text) ==
    IF text.chars = 0 THEN 0 ELSE ScoreUpTo(query_terms, Len(query_terms), text)

\* Lines 97, 175: the keys of node_by_id.
NodeIds(nodes) == {nodes[i].id : i \in 1..Len(nodes)} \ {0}

\* Lines 97, 175: node_by_id[nid]; of several nodes with one id the last stays.
NodeById(nodes, nid) ==
    nodes[CHOOSE i \in 1..Len(nodes) :
             /\ nodes[i].id = nid
             /\ \A j \in (i + 1)..Len(nodes) : nodes[j].id # nid]

\* sum(estimate_tokens(node_by_id[x].get("text") or "") for x in ids)
RECURSIVE CostOf(_, _)
CostOf(nodes, ids) ==
    IF ids = << >> THEN 0
    ELSE estimate_tokens(NodeById(nodes, Head(ids)).text) + CostOf(nodes, Tail(ids))

\* Line 127: round(score / max(1, marginal_cost), 6).  No quotient of the
\* costs explored lies halfway between two millionths.
MarginalRatio(score, marginal_cost) ==
    LET c == Max2(1, marginal_cost)
    IN (2 * score * 100 + c) \div (2 * c)

\* The closure arguments shared by the planner calls.
ClosureArgs(types, direction, max_nodes) ==
    [closure_edge_types |-> types, closure_direction |-> direction,
     max_closure_nodes |-> max_nodes]

\* Lines 100-129: the candidate of one node.
CandidateOf(node, query_terms, nodes, edges, active_set, cargs) ==
    LET closure_explain ==
            expand_closure_from_edges(<<node.id>>, edges, cargs.closure_edge_types,
                                      cargs.max_closure_nodes, cargs.closure_direction)
        ordered_ids == SelectSeq(closure_explain.ordered_ids, LAMBDA x : x \in NodeIds(nodes))
        marginal_ids == SelectSeq(ordered_ids, LAMBDA x : x \notin active_set)
        marginal_cost == CostOf(nodes, marginal_ids)
        score == score_text(query_terms, node.text)
    IN [seed_id |-> node.id,
        score |-> score,
        closure_ids |-> ordered_ids,
        closure_added_ids |-> SelectSeq(ordered_ids, LAMBDA x : x # node.id),
        closure_size |-> Len(ordered_ids),
        marginal_cost_tokens |-> marginal_cost,
        marginal_ratio |-> MarginalRatio(score, marginal_cost),
        closure_explain |-> closure_explain]

\* Lines 101-107: the nodes that become candidates.
IsCandidate(node, query_terms, active_set) ==
    /\ node.id # 0
    /\ node.id \notin active_set
    /\ score_text(query_terms, node.text) > 0

\* Lines 99-129: scored, before the sort.
Scored(query_terms, nodes, edges, active_set, cargs) ==
    LET picked == SelectSeq(nodes, LAMBDA n : IsCandidate(n, query_terms, active_set))
    IN [i \in 1..Len(picked) |->
          CandidateOf(picked[i], query_terms, nodes, edges, active_set, cargs)]

\* Line 131: the sort key of a is greater than that of b.
KeyGreater(a, b) ==
    \/ a.marginal_ratio > b.marginal_ratio
    \/ /\ a.marginal_ratio = b.marginal_ratio
       /\ \/ a.score > b.score
          \/ a.score = b.score /\ (0 - a.marginal_cost_tokens) > (0 - b.marginal_cost_tokens)

\* The candidates left in the order of the nodes.
SortCandidatesUnsorted(scored) == scored

\* Line 131: scored.sort(key=..., reverse=True), a stable sort: entry i
\* lands after every entry of greater key and every earlier one of equal key.
SortCandidates(scored) ==
    LET n == Len(scored)
        place == [i \in 1..n |->
                    1 + Cardinality({j \in 1..n :
                                       \/ KeyGreater(scored[j], scored[i])
                                       \/ ~KeyGreater(scored[i], scored[j]) /\ j < i})]
    IN [k \in 1..n |-> scored[CHOOSE i \in 1..n : place[i] = k]]

\* Lines 140, 194: the budget the loops compare against.
EffectiveBudget(budget_tokens) == Max2(1, budget_tokens)

\* Lines 134-147: the greedy walk; acc is [seed_ids, ids, cost].
RECURSIVE PlanWalk(_, _, _, _, _)
PlanWalk(cands, nodes, budget_tokens, top_k, acc) ==
    IF cands = << >> THEN acc
    ELSE LET cand == Head(cands)
             add_ids == SelectSeq(cand.closure_ids, LAMBDA nid : nid \notin acc.ids)
             add_cost == CostOf(nodes, add_ids)
         IN IF acc.cost + add_cost > EffectiveBudget(budget_tokens)
            THEN PlanWalk(Tail(cands), nodes, budget_tokens, top_k, acc)
            ELSE LET next == [seed_ids |-> Append(acc.seed_ids, cand.seed_id),
                              ids |-> acc.ids \cup Range(add_ids),
                              cost |-> acc.cost + add_cost]
                 IN IF Len(next.seed_ids) >= Max2(1, top_k)
                    THEN next
                    ELSE PlanWalk(Tail(cands), nodes, budget_tokens, top_k, next)

\* plan_unfold_candidates reporting every selected id, the active ones
\* included, as recommended_added_ids.
plan_unfold_candidates_counting_active(query, nodes, edges, active_ids, top_k, max_candidates, budget_tokens, cargs) ==
    LET query_terms == tokenize_query(query)
        active_set == Range(ordered_unique(active_ids))
        scored == Prefix(SortCandidates(Scored(query_terms, nodes, edges, active_set, cargs)),
                         Max2(1, max_candidates))
        walk == PlanWalk(scored, nodes, budget_tokens, top_k,
                         [seed_ids |-> << >>, ids |-> active_set, cost |-> 0])
    IN [query_terms |-> query_terms,
        budget_tokens |-> budget_tokens,
        candidates |-> scored,
        recommended_seed_ids |-> walk.seed_ids,
        recommended_added_ids |-> walk.ids,
        recommended_added_count |-> Cardinality(walk.ids),
        recommended_cost_tokens |-> walk.cost]

\* Lines 95-161: plan_unfold_candidates.  recommended_added_ids is a list
\* in the iteration order of a set of strings; it is kept as the set.
plan_unfold_candidates(query, nodes, edges, active_ids, top_k, max_candidates, budget_tokens, cargs) ==
    LET query_terms == tokenize_query(query)
        active_set == Range(ordered_unique(active_ids))
        scored == Prefix(SortCandidates(Scored(query_terms, nodes, edges, active_set, cargs)),
                         Max2(1, max_candidates))
        walk == PlanWalk(scored, nodes, budget_tokens, top_k,
                         [seed_ids |-> << >>, ids |-> active_set, cost |-> 0])
    IN [query_terms |-> query_terms,
        budget_tokens |-> budget_tokens,
        candidates |-> scored,
        recommended_seed_ids |-> walk.seed_ids,
        recommended_added_ids |-> walk.ids \ active_set,
        recommended_added_count |-> Cardinality(walk.ids \ active_set),
        recommended_cost_tokens |-> walk.cost]

\* Lines 182-207: the loop over the seeds; acc is [active, selected, used, steps].
RECURSIVE ApplyWalk(_, _, _, _, _, _)
ApplyWalk(seeds, nodes, edges, budget_tokens, cargs, acc) ==
    IF seeds = << >> THEN acc
    ELSE LET seed_id == Head(seeds) IN
         IF seed_id \notin NodeIds(nodes)
         THEN ApplyWalk(Tail(seeds), nodes, edges, budget_tokens, cargs, acc)
         ELSE LET closure_explain ==
                      expand_closure_from_edges(<<seed_id>>, edges, cargs.closure_edge_types,
                                                cargs.max_closure_nodes,
                                                cargs.closure_direction)
                  add_ids == SelectSeq(closure_explain.ordered_ids,
                                       LAMBDA nid : nid \in NodeIds(nodes)
                                                    /\ nid \notin acc.selected)
                  add_cost == CostOf(nodes, add_ids)
                  accepted == acc.used + add_cost <= EffectiveBudget(budget_tokens)
                  step == [seed_id |-> seed_id, candidate_add_ids |-> add_ids,
                           candidate_cost_tokens |-> add_cost, accepted |-> accepted,
                           closure |-> closure_explain]
              IN IF ~accepted
                 THEN ApplyWalk(Tail(seeds), nodes, edges, budget_tokens, cargs,
                                [acc EXCEPT !.steps = Append(acc.steps, step)])
                 ELSE ApplyWalk(Tail(seeds), nodes, edges, budget_tokens, cargs,
                                [active |-> acc.active \o add_ids,
                                 selected |-> acc.selected \cup Range(add_ids),
                                 used |-> acc.used + add_cost,
                                 steps |-> Append(acc.steps, step)])

\* apply_unfold_seed_selection returning only the ids of known nodes, as
\* the compiler's line 41 does: an active id without a node is dropped.
apply_unfold_seed_selection_known_only(seed_node_ids, nodes, edges, active_ids, budget_tokens, cargs) ==
    LET active == ordered_unique(active_ids)
        active_set == Range(active)
        walk == ApplyWalk(ordered_unique(seed_node_ids), nodes, edges, budget_tokens, cargs,
                          [active |-> active, selected |-> active_set, used |-> 0,
                           steps |-> << >>])
    IN [next_active_ids |-> SelectSeq(ordered_unique(walk.active),
                                      LAMBDA nid : nid \in NodeIds(nodes)),
        added_ids |-> SelectSeq(walk.active, LAMBDA nid : nid \notin active_set),
        used_tokens |-> walk.used,
        budget_tokens |-> budget_tokens,
        steps |-> walk.steps]

\* Lines 175-218: apply_unfold_seed_selection.
apply_unfold_seed_selection(seed_node_ids, nodes, edges, active_ids, budget_tokens, cargs) ==
    LET active == ordered_unique(active_ids)
        active_set == Range(active)
        walk == ApplyWalk(ordered_unique(seed_node_ids), nodes, edges, budget_tokens, cargs,
                          [active |-> active, selected |-> active_set, used |-> 0,
                           steps |-> << >>])
    IN [next_active_ids |-> ordered_unique(walk.active),
        added_ids |-> SelectSeq(walk.active, LAMBDA nid : nid \notin active_set),
        used_tokens |-> walk.used,
        budget_tokens |-> budget_tokens,
        steps |-> walk.steps]

\* A call of the planner, and one of the apply operation: the arguments,
\* and what was returned.
NoPlan ==
    [pc |-> "idle", query |-> << >>, nodes |-> << >>, edges |-> << >>, active_ids |-> << >>,
     top_k |-> 0, max_candidates |-> 0, budget_tokens |-> 0,
     cargs |-> ClosureArgs(<< >>, "both", << >>), returned |-> << >>]

NoApply ==
    [pc |-> "idle", seed_node_ids |-> << >>, nodes |-> << >>, edges |-> << >>,
     active_ids |-> << >>, budget_tokens |-> 0,
     cargs |-> ClosureArgs(<< >>, "both", << >>), returned |-> << >>]

(***************************************************************************)
(* The inputs of the planner calls explored.                               *)
(***************************************************************************)
\* "the hi yo hi"
Queries == {<<"the", "hi", "yo", "hi">>}

\* "", "zz", "hi", "hi hi there.", "yo zz", and a text of 260 characters
\* whose only "hi" comes after the first 240.
TextEmpty == Text(0, << >>, {})
TextOther == Text(2, <<"zz">>, {"zz"})
TextHi == Text(2, <<"hi">>, {"hi"})
TextHiHi == Text(12, <<"hi", "hi", "there">>, {"hi", "there"})
TextYo == Text(5, <<"yo", "zz">>, {"yo", "zz"})
TextLate == Text(260, <<"zz", "hi">>, {"zz"})

\* "hi" and "hi hi there" followed by filler up to 40000 and 45856
\* characters: the quotients 4.1 / 10000 and 4.7 / 11464 round to the same
\* millionth.
TextLongHi == Text(40000, <<"hi">>, {"hi"})
TextLongHiHi == Text(45856, <<"hi", "hi", "there">>, {"hi", "there"})

PlanTexts == {TextOther, TextHi, TextHiHi, TextYo}

\* Nodes 1 and 2 with any of the texts, node 3 with any or absent; lists
\* with an empty text, an id-less node, two nodes of one id, long texts.
PlanNodeLists ==
    {<<Node(1, t1), Node(2, t2)>> : t1 \in PlanTexts, t2 \in PlanTexts}
    \cup {<<Node(1, t1), Node(2, t2), Node(3, t3)>> :
            t1 \in PlanTexts, t2 \in PlanTexts, t3 \in PlanTexts}
    \cup {<<Node(1, TextHi), Node(0, TextHi), Node(2, TextEmpty)>>,
          <<Node(2, TextHiHi), Node(1, TextYo), Node(2, TextHi)>>,
          <<Node(1, TextLate), Node(2, TextYo), Node(3, TextHi)>>,
          <<Node(1, TextLongHi), Node(2, TextLongHiHi)>>}

PlanEdgeLists ==
    {<< >>,
     <<Edge(1, 2, "DEPENDS")>>,
     <<Edge(1, 2, "DEPENDS"), Edge(2, 3, "HAS_PART")>>,
     <<Edge(3, 1, "REFERENCES"), Edge(3, 2, "SPLIT_FROM")>>,
     <<Edge(2, 1, "DEPENDS"), Edge(1, 3, "NEXT")>>}

PlanActiveLists == {<< >>, <<2>>, <<3, 0, 3>>}

DefaultClosureTypes == <<"DEPENDS", "HAS_PART", "SPLIT_FROM", "REFERENCES">>

\* The defaults of the signature, and an out closure of at most two nodes.
PlanClosureArgs ==
    {ClosureArgs(DefaultClosureTypes, "both", <<12>>),
     ClosureArgs(DefaultClosureTypes, "out", <<2>>)}

\* <<top_k, max_candidates>>: the defaults, and small and zero limits.
PlanLimits == {<<8, 16>>, <<0, 0>>, <<1, 16>>, <<8, 1>>, <<2, 2>>}

Budgets == 0..MaxBudget

ApplySeedLists == {<< >>, <<1>>, <<3>>, <<3, 1>>, <<1, 2, 3>>, <<2, 0, 2, 1>>}

(***************************************************************************)
(* Hierarchy preview: services/hierarchy.py.                               *)
(*                                                                         *)
(* A float32 vector of EMBED_DIM entries is kept as a pair of integers in  *)
(* thousandths, << >> standing for None; the vectors explored lie in the   *)
(* positive quadrant of two coordinates.  Node ids are naturals, ids of    *)
(* parents outside the thread's selection included; created_at is a        *)
(* natural; a snippet is the rank of the node's text among the texts.      *)
(***************************************************************************)
EmbedDim == 1536
Scale == 1000

NoVec == << >>

RECURSIVE SqrtBetween(_, _, _)
SqrtBetween(n, lo, hi) ==
    IF lo >= hi THEN lo
    ELSE LET mid == (lo + hi + 1) \div 2
         IN IF mid * mid <= n THEN SqrtBetween(n, mid, hi) ELSE SqrtBetween(n, lo, mid - 1)

\* float(np.linalg.norm(v)), in thousandths, of a vector in thousandths.
Norm(v) == SqrtBetween(v[1] * v[1] + v[2] * v[2], 0, 46340)

\* v / n for n > 1e-9, None otherwise.
Normalized(v) ==
    LET n == Norm(v)
    IN IF n = 0 THEN NoVec ELSE <<(v[1] * Scale) \div n, (v[2] * Scale) \div n>>

RECURSIVE SumVecs(_)
SumVecs(vectors) ==
    IF vectors = << >> THEN <<0, 0>>
    ELSE LET rest == SumVecs(Tail(vectors))
         IN <<Head(vectors)[1] + rest[1], Head(vectors)[2] + rest[2]>>

\* Lines 62-70: _mean_vec; the mean and the sum have one direction.
MeanVec(vectors) ==
    IF vectors = << >> THEN NoVec ELSE Normalized(SumVecs(vectors))

\* Lines 73-76: _cos, in millionths.
Cos(a, b) ==
    IF a = NoVec \/ b = NoVec THEN 0 - Scale * Scale ELSE a[1] * b[1] + a[2] * b[2]

\* Line 174: np.allclose(b, c); thousandths are coarser than its tolerance.
AllClose(b, c) == b = c

\* A node row of the thread, and a stored NodeEmbedding: the length of its
\* JSON list and the direction it holds (len 0: no row, or "[]").
HNode(id, created_at, snippet, has_text) ==
    [id |-> id, created_at |-> created_at, snippet |-> snippet, has_text |-> has_text]

Embedding(len, vec) == [len |-> len, vec |-> vec]
NoEmbedding == Embedding(0, <<0, 0>>)

HEdge(from_id, to_id, type) == [from_id |-> from_id, to_id |-> to_id, type |-> type]

\* Lines 39-59: _vector_for_node.  lexical is the vector the fallback
\* builds from hash(tok) in the running process.
VectorForNode(node, emb, lexical) ==
    IF emb.len # 0 /\ emb.len = EmbedDim /\ Norm(emb.vec) > 0
    THEN Normalized(emb.vec)
    ELSE IF ~node.has_text THEN NoVec
         ELSE Normalized(lexical)

\* Ids of tree nodes and items: "leaf:<n>", "cluster:<depth>:<seq>",
\* "struct:<type>:<parent>", "root", and the bare node id of a leaf item.
TreeId(tag, a, b) == [tag |-> tag, a |-> a, b |-> b]
IdTags == <<"", "cluster", "leaf", "root", "struct:FOLDS", "struct:HAS_PART">>
TagRank(tag) == CHOOSE i \in 1..Len(IdTags) : IdTags[i] = tag

\* String order of two ids (depths and sequence numbers below ten).
IdLess(x, y) ==
    \/ TagRank(x.tag) < TagRank(y.tag)
    \/ x.tag = y.tag /\ (x.a < y.a \/ (x.a = y.a /\ x.b < y.b))

\* Labels: a snippet alone, or a prefix and the snippet (or parent id)
\* after " · ".  Snippets are lowercase texts, so they sort after prefixes.
Label(prefix, snippet) == [prefix |-> prefix, snippet |-> snippet]
LabelPrefixes == <<"Hierarchy", "Split Parts", "Topic", "Unfolded Fold", "">>
PrefixRank(prefix) == CHOOSE i \in 1..Len(LabelPrefixes) : LabelPrefixes[i] = prefix

LabelLess(x, y) ==
    \/ PrefixRank(x.prefix) < PrefixRank(y.prefix)
    \/ x.prefix = y.prefix /\ x.snippet < y.snippet

\* Lines 79-81: _node_sort_key(a) < _node_sort_key(b), and <=.
KeyLess(a, b) ==
    \/ a.created_at < b.created_at
    \/ a.created_at = b.created_at /\ IdLess(a.id, b.id)

KeyAtMost(a, b) == ~KeyLess(b, a)

\* sorted(items, key=_node_sort_key), a stable sort.
SortItems(items) ==
    LET n == Len(items)
        place == [i \in 1..n |->
                    1 + Cardinality({j \in 1..n :
                                       \/ KeyLess(items[j], items[i])
                                       \/ ~KeyLess(items[i], items[j]) /\ j < i})]
    IN [k \in 1..n |-> items[CHOOSE i \in 1..n : place[i] = k]]

RECURSIVE ConcatLeafIds(_)
ConcatLeafIds(items) ==
    IF items = << >> THEN << >> ELSE Head(items).leaf_node_ids \o ConcatLeafIds(Tail(items))

RECURSIVE MinCreated(_)
MinCreated(items) ==
    IF Len(items) = 1 THEN items[1].created_at
    ELSE Min2(items[1].created_at, MinCreated(Tail(items)))

\* Lines 95-104: _make_leaf_item.
MakeLeafItem(node, vec) ==
    [kind |-> "leaf", id |-> TreeId("", 0, node.id), label |-> Label("", node.snippet),
     children_items |-> << >>, leaf_node_ids |-> <<node.id>>, centroid |-> vec,
     created_at |-> node.created_at, node |-> <<node>>]

\* Lines 107-122: _make_group_item, without a source node.
MakeGroupItem(group_id, label, kind, child_items) ==
    LET with_vec == SelectSeq(child_items, LAMBDA c : c.centroid # NoVec)
    IN [kind |-> kind, id |-> group_id, label |-> label,
        children_items |-> child_items,
        leaf_node_ids |-> ConcatLeafIds(child_items),
        centroid |-> MeanVec([i \in 1..Len(with_vec) |-> with_vec[i].centroid]),
        created_at |-> MinCreated(child_items), node |-> << >>]


NodeOf(nodes, nid) == nodes[CHOOSE i \in 1..Len(nodes) : nodes[i].id = nid]

\* Line 140: abs(score - rep_score) < 1e-9.  Scores in millionths computed
\* from vectors in thousandths carry a rounding error below this.
ScoreTolerance == 3000

\* Lines 131-141: the loop of _cluster_label over the leaves of the items;
\* rep is << >> (None) or <<leaf id>>, score starts at -10.
RECURSIVE RepresentativeLeaf(_, _, _, _)
RepresentativeLeaf(pairs, centroid, rep, rep_score) ==
    IF pairs = << >> THEN rep
    ELSE LET nid == Head(pairs)[2]
             score == Cos(centroid, Head(pairs)[1])
         IN IF \/ score >= rep_score + ScoreTolerance
               \/ /\ score > rep_score - ScoreTolerance
                  /\ rep # << >>
                  /\ nid < rep[1]
            THEN RepresentativeLeaf(Tail(pairs), centroid, <<nid>>, score)
            ELSE RepresentativeLeaf(Tail(pairs), centroid, rep, rep_score)

RECURSIVE LeafPairs(_)
LeafPairs(items) ==
    IF items = << >> THEN << >>
    ELSE [i \in 1..Len(Head(items).leaf_node_ids) |->
            <<Head(items).centroid, Head(items).leaf_node_ids[i]>>]
         \o LeafPairs(Tail(items))

\* Lines 125-145: _cluster_label.  The count form is returned when no
\* representative is found.
ClusterLabel(items, nodes, prefix) ==
    LET with_vec == SelectSeq(items, LAMBDA it : it.centroid # NoVec)
        centroid == MeanVec([i \in 1..Len(with_vec) |-> with_vec[i].centroid])
        rep == RepresentativeLeaf(LeafPairs(items), centroid, << >>, 0 - 10 * Scale * Scale)
    IN IF rep # << >> /\ rep[1] \in {nodes[i].id : i \in 1..Len(nodes)}
       THEN Label(prefix, NodeOf(nodes, rep[1]).snippet)
       ELSE Label(prefix, 0 - Len(ConcatLeafIds(items)))

NoPartition == [ok |-> FALSE, left |-> << >>, right |-> << >>]
Partition(left, right) == [ok |-> TRUE, left |-> left, right |-> right]

\* Lines 164, 169: max(candidates, key=(1 - cos(ref, it), sort key)).
FarthestFrom(candidates, ref) ==
    candidates[CHOOSE i \in 1..Len(candidates) :
        \A j \in 1..Len(candidates) :
            j # i =>
              \/ Cos(ref, candidates[j].centroid) > Cos(ref, candidates[i].centroid)
              \/ /\ Cos(ref, candidates[j].centroid) = Cos(ref, candidates[i].centroid)
                 /\ \/ KeyLess(candidates[j], candidates[i])
                    \/ ~KeyLess(candidates[i], candidates[j]) /\ i < j]

\* Lines 155-158, 175-176, 197-201: the split at the middle.
MidpointSplit(items) ==
    LET mid == Len(items) \div 2
    IN IF mid <= 0 \/ mid >= Len(items) THEN NoPartition
       ELSE Partition(SubSeq(items, 1, mid), SubSeq(items, mid + 1, Len(items)))

\* Lines 178-194: the loop that puts every item on a side.
RECURSIVE AssignSides(_, _, _, _, _, _)
AssignSides(items, b_vec, c_vec, seed_a, left, right) ==
    IF items = << >> THEN Partition(left, right)
    ELSE LET it == Head(items)
             sb == Cos(it.centroid, b_vec)
             sc == Cos(it.centroid, c_vec)
             toLeft == IF it.centroid = NoVec THEN Len(left) <= Len(right)
                       ELSE IF sb > sc THEN TRUE
                       ELSE IF sc > sb THEN FALSE
                       ELSE KeyAtMost(it, seed_a)
         IN IF toLeft
            THEN AssignSides(Tail(items), b_vec, c_vec, seed_a, Append(left, it), right)
            ELSE AssignSides(Tail(items), b_vec, c_vec, seed_a, left, Append(right, it))

\* Lines 148-203: _partition_bisect.
PartitionBisect(items) ==
    IF Len(items) < 4 THEN NoPartition
    ELSE LET with_vec == SelectSeq(items, LAMBDA it : it.centroid # NoVec)
         IN IF Len(with_vec) < 2 THEN MidpointSplit(items)
            ELSE LET ordered == SortItems(with_vec)
                     seed_a == ordered[1]
                     far_b == FarthestFrom(Tail(ordered), seed_a.centroid)
                     b_vec == far_b.centroid
                     far_c == FarthestFrom(ordered, b_vec)
                     c_vec == far_c.centroid
                 IN IF b_vec = NoVec \/ c_vec = NoVec THEN NoPartition
                    ELSE IF AllClose(b_vec, c_vec) THEN MidpointSplit(SortItems(items))
                    ELSE LET sides == AssignSides(items, b_vec, c_vec, seed_a, << >>, << >>)
                         IN IF sides.left = << >> \/ sides.right = << >>
                            THEN LET split == MidpointSplit(SortItems(items))
                                 IN IF ~split.ok THEN NoPartition
                                    ELSE Partition(SortItems(split.left), SortItems(split.right))
                            ELSE Partition(SortItems(sides.left), SortItems(sides.right))

\* Lines 223-231: the tree node of a leaf item.
LeafTreeNode(n) ==
    [id |-> TreeId("leaf", 0, n.id), kind |-> "leaf", label |-> Label("", n.snippet),
     node_id |-> n.id, children |-> << >>, leaf_node_ids |-> <<n.id>>, size |-> 1]

RECURSIVE ConcatChildLeafIds(_)
ConcatChildLeafIds(children) ==
    IF children = << >> THEN << >>
    ELSE Head(children).leaf_node_ids \o ConcatChildLeafIds(Tail(children))

RECURSIVE SumSizes(_)
SumSizes(children) ==
    IF children = << >> THEN 0 ELSE Head(children).size + SumSizes(Tail(children))

\* Line 274: the sort key of a child cluster is smaller than that of another.
ChildKeyLess(c, d) ==
    LET lc == IF c.children # << >> THEN c.children[1].label ELSE c.label
        ld == IF d.children # << >> THEN d.children[1].label ELSE d.label
    IN \/ LabelLess(lc, ld)
       \/ lc = ld /\ IdLess(c.id, d.id)

\* Lines 206-282: _build_recursive_cluster; returns the tree node and the
\* value of cluster_seq[0] afterwards.  A CHOOSE over a one-element set
\* {e : x \in {v}} names the value of v, as an assignment to a local does.
RECURSIVE BuildRecursiveCluster(_, _, _, _, _)
RECURSIVE TerminalChildren(_, _, _, _, _, _)

\* Lines 241-247: the subtree built for a structural group takes the id,
\* kind, label and leaves of its item.
GroupNode(it, built) ==
    [built.node EXCEPT !.id = it.id, !.kind = it.kind, !.label = it.label,
                       !.leaf_node_ids = it.leaf_node_ids,
                       !.size = Len(it.leaf_node_ids)]

\* Lines 220-247: the loop over the items of a terminal cluster.
TerminalChildren(items, nodes, max_leaf_size, depth, cluster_seq, children) ==
    IF items = << >> THEN [children |-> children, cluster_seq |-> cluster_seq]
    ELSE IF Head(items).kind = "leaf"
    THEN CHOOSE out \in
           {TerminalChildren(Tail(items), nodes, max_leaf_size, depth, cluster_seq, grown) :
              grown \in {Append(children, LeafTreeNode(Head(items).node[1]))}} : TRUE
    ELSE CHOOSE out \in
           {TerminalChildren(Tail(items), nodes, max_leaf_size, depth, built.cluster_seq,
                             Append(children, GroupNode(Head(items), built))) :
              built \in {BuildRecursiveCluster(Head(items).children_items, nodes,
                                               Max2(2, max_leaf_size - 1), depth + 1,
                                               cluster_seq)}} : TRUE

\* Lines 249-256 and 275-282: the returned dict.
ClusterNode(items, nodes, depth, children, cluster_seq) ==
    [node |-> [id |-> TreeId("cluster", depth, cluster_seq),
               kind |-> IF depth > 0 THEN "cluster" ELSE "root",
               label |-> ClusterLabel(items, nodes,
                                      IF depth > 0 THEN "Topic" ELSE "Hierarchy"),
               children |-> children,
               leaf_node_ids |-> ConcatChildLeafIds(children),
               size |-> SumSizes(children)],
     cluster_seq |-> cluster_seq]

\* Lines 218-256: the terminal container over sorted items.
TerminalCluster(items, nodes, max_leaf_size, depth, cluster_seq) ==
    CHOOSE out \in
      {ClusterNode(items, nodes, depth, kids.children, kids.cluster_seq) :
         kids \in {TerminalChildren(items, nodes, max_leaf_size, depth, cluster_seq,
                                    << >>)}} : TRUE

\* Line 274: the two clusters sorted by the children sort key.
SortTwo(left, right) ==
    IF ChildKeyLess(right, left) THEN <<right, left>> ELSE <<left, right>>

\* The right cluster built without the increment of line 268: it starts
\* from the counter the left one ended with.
JoinClustersSharingIndex(items, nodes, max_leaf_size, depth, part, left) ==
    CHOOSE out \in
      {ClusterNode(items, nodes, depth, SortTwo(left.node, right.node), right.cluster_seq) :
         right \in {BuildRecursiveCluster(part.right, nodes, max_leaf_size, depth + 1,
                                          left.cluster_seq)}} : TRUE

\* Lines 268-282: the right cluster, built after the left one, and the
\* returned dict.
JoinClusters(items, nodes, max_leaf_size, depth, part, left) ==
    CHOOSE out \in
      {ClusterNode(items, nodes, depth, SortTwo(left.node, right.node), right.cluster_seq) :
         right \in {BuildRecursiveCluster(part.right, nodes, max_leaf_size, depth + 1,
                                          left.cluster_seq + 1)}} : TRUE

\* Lines 258-282: the bisection of sorted items, or the fallback of line 261.
SplitCluster(items, nodes, max_leaf_size, depth, cluster_seq, part) ==
    IF ~part.ok THEN BuildRecursiveCluster(items, nodes, 10000, depth, cluster_seq)
    ELSE CHOOSE out \in
           {JoinClusters(items, nodes, max_leaf_size, depth, part, left) :
              left \in {BuildRecursiveCluster(part.left, nodes, max_leaf_size, depth + 1,
                                              cluster_seq + 1)}} : TRUE

\* Lines 215-218, 258: the choice between the two, over the sorted items.
ClusterOfSorted(items, nodes, max_leaf_size, depth, cluster_seq) ==
    IF Len(ConcatLeafIds(items)) <= max_leaf_size \/ Len(items) <= 2
    THEN TerminalCluster(items, nodes, max_leaf_size, depth, cluster_seq)
    ELSE CHOOSE out \in
           {SplitCluster(items, nodes, max_leaf_size, depth, cluster_seq, part) :
              part \in {PartitionBisect(items)}} : TRUE

BuildRecursiveCluster(items_arg, nodes, max_leaf_size, depth, cluster_seq) ==
    CHOOSE out \in
      {ClusterOfSorted(items, nodes, max_leaf_size, depth, cluster_seq) :
         items \in {SortItems(items_arg)}} : TRUE

\* Lines 285-310: _collect_leaf_layout, the rows in visiting order; rank is
\* the position of a row.
RECURSIVE LeafRowsOf(_, _)
RECURSIVE LeafRowsOfChildren(_, _)
LeafRowsOf(node, path) ==
    IF node.kind = "leaf"
    THEN IF node.node_id = 0 THEN << >>
         ELSE <<[node_id |-> node.node_id, depth |-> Len(path), cluster_path |-> path]>>
    ELSE LeafRowsOfChildren(node.children, Append(path, node.id))

LeafRowsOfChildren(children, path) ==
    IF children = << >> THEN << >>
    ELSE LeafRowsOf(Head(children), path) \o LeafRowsOfChildren(Tail(children), path)

CollectLeafLayout(root) ==
    LET rows == LeafRowsOf(root, << >>)
    IN [i \in 1..Len(rows) |->
          [node_id |-> rows[i].node_id, rank |-> i - 1, depth |-> rows[i].depth,
           cluster_path |-> rows[i].cluster_path]]


\* Lines 325-333: group_children_by_parent[(type, parent)], in edge order.
GroupChildIds(edges, node_set, etype, parent_id) ==
    LET hits == SelectSeq(edges, LAMBDA e : /\ e.type \in {"HAS_PART", "FOLDS"}
                                            /\ e.to_id \in node_set
                                            /\ e.from_id \notin node_set
                                            /\ e.type = etype /\ e.from_id = parent_id)
    IN [i \in 1..Len(hits) |-> hits[i].to_id]

\* Line 338: the keys of group_children_by_parent in sorted order.
RECURSIVE GroupKeysFrom(_, _, _)
GroupKeysFrom(edges, node_set, keys) ==
    IF keys = << >> THEN << >>
    ELSE (IF GroupChildIds(edges, node_set, Head(keys)[1], Head(keys)[2]) # << >>
          THEN <<Head(keys)>> ELSE << >>)
         \o GroupKeysFrom(edges, node_set, Tail(keys))

GroupKeys(edges, node_set) ==
    LET parents == SortedIds({edges[i].from_id : i \in 1..Len(edges)})
        keys == [i \in 1..Len(parents) |-> <<"FOLDS", parents[i]>>]
                \o [i \in 1..Len(parents) |-> <<"HAS_PART", parents[i]>>]
    IN GroupKeysFrom(edges, node_set, keys)

\* sorted(..., key=(created_at, id)) over nodes.
SortNodes(nodes) ==
    LET n == Len(nodes)
        less(a, b) == \/ a.created_at < b.created_at
                      \/ a.created_at = b.created_at /\ a.id < b.id
        place == [i \in 1..n |->
                    1 + Cardinality({j \in 1..n :
                                       \/ less(nodes[j], nodes[i])
                                       \/ ~less(nodes[i], nodes[j]) /\ j < i})]
    IN [k \in 1..n |-> nodes[CHOOSE i \in 1..n : place[i] = k]]

\* uniq without its seen set: every selected child as often as an edge
\* names it.
UniqueChildrenKeepingRepeats(child_ids, node_set, seen) ==
    SelectSeq(child_ids, LAMBDA cid : cid \in node_set)

\* Lines 339-345: uniq, the first occurrence of every selected child.
RECURSIVE UniqueChildren(_, _, _)
UniqueChildren(child_ids, node_set, seen) ==
    IF child_ids = << >> THEN << >>
    ELSE IF Head(child_ids) \in seen \/ Head(child_ids) \notin node_set
         THEN UniqueChildren(Tail(child_ids), node_set, seen)
         ELSE <<Head(child_ids)>>
              \o UniqueChildren(Tail(child_ids), node_set, seen \cup {Head(child_ids)})

\* Lines 338-357: the loop over the groups; acc is [items, consumed].
RECURSIVE StructuralGroups(_, _, _, _, _)
StructuralGroups(keys, nodes, edges, node_vecs, acc) ==
    IF keys = << >> THEN acc
    ELSE LET etype == Head(keys)[1]
             parent_id == Head(keys)[2]
             node_set == {nodes[i].id : i \in 1..Len(nodes)}
             uniq == UniqueChildren(GroupChildIds(edges, node_set, etype, parent_id),
                                    node_set, {})
         IN IF Len(uniq) < 2
            THEN StructuralGroups(Tail(keys), nodes, edges, node_vecs, acc)
            ELSE LET child_nodes == SortNodes([i \in 1..Len(uniq) |-> NodeOf(nodes, uniq[i])])
                     child_items == [i \in 1..Len(child_nodes) |->
                                       MakeLeafItem(child_nodes[i],
                                                    node_vecs[child_nodes[i].id])]
                     item == IF etype = "FOLDS"
                             THEN MakeGroupItem(TreeId("struct:FOLDS", 0, parent_id),
                                                Label("Unfolded Fold", parent_id),
                                                "structural_fold", child_items)
                             ELSE MakeGroupItem(TreeId("struct:HAS_PART", 0, parent_id),
                                                Label("Split Parts", parent_id),
                                                "structural_split", child_items)
                 IN StructuralGroups(Tail(keys), nodes, edges, node_vecs,
                                     [items |-> Append(acc.items, item),
                                      consumed |-> acc.consumed \cup Range(uniq)])

\* Lines 313-364: _apply_structural_grouping.
ApplyStructuralGrouping(nodes, edges, node_vecs) ==
    LET node_set == {nodes[i].id : i \in 1..Len(nodes)}
        groups == StructuralGroups(GroupKeys(edges, node_set), nodes, edges, node_vecs,
                                   [items |-> << >>, consumed |-> {}])
        rest == SelectSeq(SortNodes(nodes), LAMBDA n : n.id \notin groups.consumed)
    IN groups.items \o [i \in 1..Len(rest) |-> MakeLeafItem(rest[i], node_vecs[rest[i].id])]


(***************************************************************************)
(* Embeddings: services/embedding.py and the index of                      *)
(* services/vector_index.py.  rows maps a node id to its stored            *)
(* NodeEmbedding, fresh to what embed_text returns for the node's text,    *)
(* index to the vector the thread's index holds for it (None: absent).     *)
(***************************************************************************)
\* embedding.py lines 43-51, vector_index.py lines 25-33: _validate_dim raises.
DimMismatch(e) == e.len # 0 /\ e.len # EmbedDim

\* Lines 35-40: _norm on a non-empty list.
NormList(e) == Embedding(e.len, IF Norm(e.vec) = 0 THEN <<0, 0>> ELSE Normalized(e.vec))

\* Lines 58-67 with the try/except of lines 92-95 and 132-135: the stored
\* vector, or None when it is absent, empty or of another length.
ExistingVec(e) == IF e.len = 0 \/ DimMismatch(e) THEN NoEmbedding ELSE e

\* vector_index.py lines 131-143: FaissIndex.upsert of a vector that passed
\* _validate_dim; an id already in the id map is left alone.
IndexUpsert(index, nid, e) ==
    IF e.len = 0 \/ index[nid] # NoVec THEN index
    ELSE [index EXCEPT ![nid] = NormList(e).vec]

\* Lines 126-148: the loop of ensure_nodes_embeddings; acc is
\* [error, rows, index, pending, reused, skipped].
RECURSIVE EnsureLoop(_, _, _)
EnsureLoop(nodes, fresh, acc) ==
    IF nodes = << >> \/ acc.error THEN acc
    ELSE LET node == Head(nodes)
             existing_vec == ExistingVec(acc.rows[node.id])
             vec == fresh[node.id]
         IN IF ~node.has_text
            THEN EnsureLoop(Tail(nodes), fresh, [acc EXCEPT !.skipped = @ + 1])
            ELSE IF existing_vec.len # 0
            THEN EnsureLoop(Tail(nodes), fresh,
                            [acc EXCEPT !.index = IndexUpsert(@, node.id, existing_vec),
                                        !.reused = @ + 1])
            ELSE IF vec.len = 0
            THEN EnsureLoop(Tail(nodes), fresh, [acc EXCEPT !.skipped = @ + 1])
            ELSE IF DimMismatch(vec)
            THEN [acc EXCEPT !.error = TRUE]
            ELSE EnsureLoop(Tail(nodes), fresh,
                            [acc EXCEPT !.rows = [@ EXCEPT ![node.id] = NormList(vec)],
                                        !.pending = Append(@, node.id)])

RECURSIVE UpsertAll(_, _, _)
UpsertAll(index, ids, rows) ==
    IF ids = << >> THEN index
    ELSE UpsertAll(IndexUpsert(index, Head(ids), rows[Head(ids)]), Tail(ids), rows)

\* Lines 116-160: ensure_nodes_embeddings with commit=True.  A raised
\* ValueError leaves the rows as they were (nothing was committed), the
\* index as far as the loop got.
ensure_nodes_embeddings(nodes, rows, fresh, index) ==
    LET done == EnsureLoop(nodes, fresh,
                           [error |-> FALSE, rows |-> rows, index |-> index,
                            pending |-> << >>, reused |-> 0, skipped |-> 0])
    IN IF done.error
       THEN [error |-> TRUE, rows |-> rows, index |-> done.index,
             embedded |-> 0, reused |-> done.reused, skipped |-> done.skipped]
       ELSE [error |-> FALSE, rows |-> done.rows,
             index |-> UpsertAll(done.index, done.pending, done.rows),
             embedded |-> Len(done.pending), reused |-> done.reused,
             skipped |-> done.skipped]

(***************************************************************************)
(* build_hierarchy_preview.                                                *)
(***************************************************************************)
EmptyRoot ==
    [id |-> TreeId("root", 0, 0), kind |-> "root", label |-> Label("Hierarchy", 0),
     children |-> << >>, leaf_node_ids |-> << >>, size |-> 0]

\* Lines 403-436: the tree over the selected nodes and their vectors.
PreviewOfItems(nodes, ensured, top_items, max_leaf_size) ==
    CHOOSE out \in
      {[error |-> FALSE, rows |-> ensured.rows, index |-> ensured.index,
        root |-> root, leaf_layout |-> CollectLeafLayout(root),
        selected_nodes |-> Len(nodes), top_groups |-> Len(top_items),
        top_items |-> top_items] :
         root \in {[BuildRecursiveCluster(
                        top_items, nodes,
                        Max2(2, IF max_leaf_size = 0 THEN 6 ELSE max_leaf_size),
                        0, 1).node EXCEPT !.id = TreeId("root", 0, 0),
                                          !.kind = "root"]}} : TRUE

\* Lines 406-410: node_vecs and the top items.
PreviewOfVectors(nodes, thread_edges, ensured, max_leaf_size, node_vecs) ==
    CHOOSE out \in
      {PreviewOfItems(nodes, ensured, top_items, max_leaf_size) :
         top_items \in {ApplyStructuralGrouping(
                            nodes,
                            SelectSeq(thread_edges,
                                      LAMBDA e : e.type \in {"HAS_PART", "FOLDS"}),
                            node_vecs)}} : TRUE

\* Lines 390-436: after ensure_nodes_embeddings; a ValueError it raises
\* ends the request.
PreviewOfEnsured(nodes, thread_edges, ensured, max_leaf_size, lexical) ==
    IF ensured.error
    THEN [error |-> TRUE, rows |-> ensured.rows, index |-> ensured.index,
          root |-> EmptyRoot, leaf_layout |-> << >>, selected_nodes |-> 0,
          top_groups |-> 0, top_items |-> << >>]
    ELSE CHOOSE out \in
           {PreviewOfVectors(nodes, thread_edges, ensured, max_leaf_size, node_vecs) :
              node_vecs \in {[nid \in {nodes[i].id : i \in 1..Len(nodes)} |->
                                VectorForNode(NodeOf(nodes, nid), ensured.rows[nid],
                                              lexical[nid])]}} : TRUE

\* Lines 379-436: the request over the selected nodes.
PreviewOfNodes(nodes, thread_edges, rows, fresh, index, max_leaf_size, lexical) ==
    IF nodes = << >>
    THEN [error |-> FALSE, rows |-> rows, index |-> index, root |-> EmptyRoot,
          leaf_layout |-> << >>, selected_nodes |-> 0, top_groups |-> 0,
          top_items |-> << >>]
    ELSE CHOOSE out \in
           {PreviewOfEnsured(nodes, thread_edges, ensured, max_leaf_size, lexical) :
              ensured \in {ensure_nodes_embeddings(nodes, rows, fresh, index)}} : TRUE

\* Lines 367-436.  node_ids is << >> for None, <<S>> for the set S; lexical
\* maps a node id to the fallback vector of the running process.
build_hierarchy_preview(thread_nodes, thread_edges, rows, fresh, index, node_ids, max_leaf_size, lexical) ==
    CHOOSE out \in
      {PreviewOfNodes(nodes, thread_edges, rows, fresh, index, max_leaf_size, lexical) :
         nodes \in {IF node_ids = << >> THEN thread_nodes
                    ELSE SelectSeq(thread_nodes, LAMBDA n : n.id \in node_ids[1])}} : TRUE


\* The hierarchy requests of one server: the thread, the stored embeddings,
\* the index, the request arguments, the fallback vectors of the running
\* process, and what each request returned.  pc is "serving" before the
\* first request, "served" after it, "restarted" once the process was
\* restarted, "compared" after the second request.
NoHier ==
    [pc |-> "idle", nodes |-> << >>, edges |-> << >>, rows |-> << >>, fresh |-> << >>,
     index |-> << >>, node_ids |-> << >>, max_leaf_size |-> 0, lexical |-> << >>,
     runs |-> << >>]

(***************************************************************************)
(* The inputs of the hierarchy requests explored.                          *)
(***************************************************************************)
HIds == 1..5
OutsideIds == {8, 9}

VecX == <<1000, 0>>
VecY == <<0, 1000>>
VecD == <<707, 707>>

\* What a node brings: whether it has text, its stored row, and what
\* embed_text returns for it.
\*   "x", "y", "d": a stored unit vector;   "n": no text, nothing stored;
\*   "z": a stored vector of norm zero;     "m": a stored row of length 3;
\*   "f": nothing stored, embed_text fine;  "e": nothing stored, embed_text empty;
\*   "b": nothing stored, embed_text of length 3.
KindHasText(k) == k # "n"

KindRow(k) ==
    CASE k = "x" -> Embedding(EmbedDim, VecX)
      [] k = "y" -> Embedding(EmbedDim, VecY)
      [] k = "d" -> Embedding(EmbedDim, VecD)
      [] k = "z" -> Embedding(EmbedDim, <<0, 0>>)
      [] k = "m" -> Embedding(3, VecX)
      [] OTHER -> NoEmbedding

KindFresh(k) ==
    CASE k = "n" -> NoEmbedding
      [] k = "e" -> NoEmbedding
      [] k = "b" -> Embedding(3, VecY)
      [] k = "y" -> Embedding(EmbedDim, VecY)
      [] k = "m" -> Embedding(EmbedDim, VecY)
      [] OTHER -> Embedding(EmbedDim, VecX)

\* Creation times and snippets as functions of the id.
Layouts == {"by id", "labels reversed", "times reversed"}
LayoutCreated(layout, id) == IF layout = "times reversed" THEN 6 - id ELSE 1
LayoutSnippet(layout, id) == IF layout = "labels reversed" THEN 6 - id ELSE id

\* The rows of the thread in the order of the query of line 374.
ThreadNodes(kinds, layout) ==
    SortNodes([i \in 1..Len(kinds) |->
                 HNode(i, LayoutCreated(layout, i), LayoutSnippet(layout, i),
                       KindHasText(kinds[i]))])

CommonKinds == {"x", "y", "n"}
CommonProfiles ==
    {<<k1, k2, k3, k4, "x">> : k1 \in CommonKinds, k2 \in CommonKinds,
                               k3 \in CommonKinds, k4 \in CommonKinds}

SpecialProfiles ==
    {<<"z", "z", "z", "z", "x">>, <<"z", "x", "z", "y", "x">>, <<"e", "e", "x", "y", "n">>,
     <<"m", "x", "y", "x", "y">>, <<"f", "f", "y", "y", "x">>, <<"b", "x", "y", "x", "y">>,
     <<"d", "x", "y", "d", "n">>, <<"x", "y", "x", "y", "x">>}

NoEdges == << >>
SplitOfFour ==
    <<HEdge(5, 1, "HAS_PART"), HEdge(5, 2, "HAS_PART"), HEdge(5, 3, "HAS_PART"),
      HEdge(5, 4, "HAS_PART")>>
TwoParents ==
    <<HEdge(8, 1, "HAS_PART"), HEdge(8, 2, "HAS_PART"), HEdge(9, 2, "HAS_PART"),
      HEdge(9, 3, "HAS_PART")>>

CommonEdgeLists == {NoEdges, SplitOfFour, TwoParents}

SpecialEdgeLists ==
    CommonEdgeLists
    \cup {<<HEdge(5, 1, "HAS_PART"), HEdge(5, 2, "HAS_PART")>>,
          <<HEdge(8, 1, "FOLDS"), HEdge(8, 2, "FOLDS"), HEdge(8, 2, "HAS_PART"),
            HEdge(8, 1, "HAS_PART")>>,
          <<HEdge(8, 1, "HAS_PART"), HEdge(8, 1, "HAS_PART"), HEdge(5, 4, "FOLDS"),
            HEdge(5, 3, "FOLDS"), HEdge(1, 2, "NEXT")>>,
          <<HEdge(1, 2, "HAS_PART"), HEdge(1, 3, "HAS_PART")>>}

\* node_ids: None, or a list of ids.
CommonSelections == {<< >>, <<{1, 2, 3, 4}>>}

\* max_leaf_size of the request; 0 is replaced by 6 (line 416).
CommonLeafSizes == {2, 3}

\* Pairs of node_ids and max_leaf_size.
SpecialArguments ==
    {<<<< >>, 0>>, <<<< >>, 2>>, <<<<{1, 2, 3, 4}>>, 3>>, <<<<{1, 2}>>, 2>>, <<<<{}>>, 2>>}

\* The fallback vectors of two processes.
LexicalA == [id \in HIds |-> VecX]
LexicalB == [id \in HIds |-> IF id % 2 = 1 THEN VecY ELSE VecX]

HierRequest(kinds, layout, edges, node_ids, max_leaf_size) ==
    [NoHier EXCEPT !.pc = "serving",
                   !.nodes = ThreadNodes(kinds, layout),
                   !.edges = edges,
                   !.rows = [id \in HIds |-> KindRow(kinds[id])],
                   !.fresh = [id \in HIds |-> KindFresh(kinds[id])],
                   !.index = [id \in HIds |-> NoVec],
                   !.node_ids = node_ids,
                   !.max_leaf_size = max_leaf_size,
                   !.lexical = LexicalA]

HierRequests ==
    {HierRequest(k, "by id", e, sel, m) :
        k \in CommonProfiles, e \in CommonEdgeLists, sel \in CommonSelections,
        m \in CommonLeafSizes}
    \cup {HierRequest(k, l, e, a[1], a[2]) :
            k \in SpecialProfiles, l \in Layouts, e \in SpecialEdgeLists,
            a \in SpecialArguments}

(***************************************************************************)
(* The operations that use an embedding, over one node with text: its      *)
(* stored row, what embed_text returns for its text and for a query, and   *)
(* the index.  error tells that the operation raised; computed that        *)
(* embed_text was called for the node; vector is what the operation used   *)
(* for the node (zero: nothing).                                           *)
(***************************************************************************)
NoEmbed ==
    [pc |-> "idle", op |-> "", stored |-> NoEmbedding, fresh |-> NoEmbedding,
     query |-> NoEmbedding, index |-> <<NoVec>>, error |-> FALSE, computed |-> FALSE,
     stored_before |-> NoEmbedding, vector |-> NoVec]

TheNode == HNode(1, 1, 1, TRUE)

\* embedding.py lines 80-113: ensure_node_embedding with its defaults;
\* returns [error, row, index, computed].
ensure_node_embedding(node, stored, fresh, index) ==
    IF ~node.has_text
    THEN [error |-> FALSE, row |-> stored, index |-> index, computed |-> FALSE]
    ELSE IF ExistingVec(stored).len # 0
    THEN [error |-> FALSE, row |-> stored,
          index |-> IndexUpsert(index, node.id, ExistingVec(stored)), computed |-> FALSE]
    ELSE IF fresh.len = 0
    THEN [error |-> FALSE, row |-> stored, index |-> index, computed |-> TRUE]
    ELSE IF DimMismatch(fresh)
    THEN [error |-> TRUE, row |-> stored, index |-> index, computed |-> TRUE]
    ELSE [error |-> FALSE, row |-> NormList(fresh),
          index |-> IndexUpsert(index, node.id, NormList(fresh)), computed |-> TRUE]

\* embedding.py lines 163-226: ensure_thread_embeddings over the node; the
\* nodes without a valid stored vector go to ensure_nodes_embeddings.
ensure_thread_embeddings(node, stored, fresh, index) ==
    IF ~node.has_text \/ ExistingVec(stored).len # 0
    THEN [error |-> FALSE, rows |-> <<stored>>, index |-> index, embedded |-> 0,
          reused |-> 0, skipped |-> 0]
    ELSE ensure_nodes_embeddings(<<node>>, <<stored>>, <<fresh>>, index)

\* embedding.py lines 233-260 and vector_index.py lines 171-194:
\* rebuild_thread_index; returns the new index and skipped_invalid.
rebuild_thread_index(node, stored) ==
    IF stored.len = 0 \/ stored.len # EmbedDim
    THEN [index |-> <<NoVec>>, skipped_invalid |-> IF stored.len = 0 THEN 0 ELSE 1]
    ELSE [index |-> <<NormList(stored).vec>>, skipped_invalid |-> 0]

\* embedding.py lines 267-302: search_nodes; returns [error, rows, index,
\* computed, hits].
search_nodes(node, stored, fresh, query, index) ==
    IF query.len = 0
    THEN [error |-> FALSE, rows |-> <<stored>>, index |-> index, computed |-> FALSE,
          hits |-> << >>]
    ELSE IF DimMismatch(query)
    THEN [error |-> TRUE, rows |-> <<stored>>, index |-> index, computed |-> FALSE,
          hits |-> << >>]
    ELSE LET coverage == ensure_thread_embeddings(node, stored, fresh, index)
         IN [error |-> coverage.error, rows |-> coverage.rows, index |-> coverage.index,
             computed |-> node.has_text /\ ExistingVec(stored).len = 0,
             hits |-> IF coverage.error \/ coverage.index[node.id] = NoVec THEN << >>
                      ELSE <<node.id>>]

StoredChoices ==
    {NoEmbedding, Embedding(EmbedDim, VecX), Embedding(EmbedDim, VecY),
     Embedding(EmbedDim, <<0, 0>>), Embedding(3, VecX)}
FreshChoices == {NoEmbedding, Embedding(EmbedDim, VecX), Embedding(EmbedDim, VecY), Embedding(3, VecY)}
QueryChoices == {NoEmbedding, Embedding(EmbedDim, VecX), Embedding(3, VecX)}
IndexChoices == {<<NoVec>>, <<VecX>>}
(***************************************************************************)
(* The stored active list of a context set: routers/context_sets.py,       *)
(* routers/folds.py, routers/nodes.py, routers/messages.py,                *)
(* routers/threads.py and services/context_versions.py.                    *)
(*                                                                         *)
(* One thread with one context set.  nodes is the set of ids of the        *)
(* thread's Node rows, folds those of type Fold, edges the Edge rows of    *)
(* the types a closure can follow (NEXT, NEXT_PART, ATTACHED_TO and        *)
(* REPLY_TO edges are written by the handlers but read by none of them),   *)
(* active the decoded active_node_ids_json, fresh the ids not handed out   *)
(* yet.  The ContextSetVersion rows, which no handler reads back into the  *)
(* active list, are left out.  last names the handler that committed last  *)
(* and tells whether it was offered an id twice, or one already active.    *)
(***************************************************************************)
NoCtx ==
    [pc |-> "idle", nodes |-> {}, folds |-> {}, edges |-> << >>, active |-> << >>,
     fresh |-> << >>, last |-> [op |-> "", repeat |-> FALSE]]

\* context_versions.py lines 11-19: _ordered_unique, the loop of ordered_unique.
snapshot_ordered_unique(ids) == OrderedUniqueFrom(ids, {})

\* context_versions.py lines 31-33: the list stored once the snapshot is taken.
snapshot_context_set(active) ==
    LET active_ids == snapshot_ordered_unique(active)
    IN IF active_ids # active THEN active_ids ELSE active

\* context_sets.py lines 36-47: _validate_node_ids; a node outside the
\* thread raises 404 once the loop reaches it.
RECURSIVE ValidateFrom(_, _, _, _)
ValidateFrom(thread_nodes, node_ids, seen, valid) ==
    IF node_ids = << >> THEN [ok |-> TRUE, valid |-> valid]
    ELSE LET nid == Head(node_ids) IN
         IF nid = 0 \/ nid \in seen
         THEN ValidateFrom(thread_nodes, Tail(node_ids), seen, valid)
         ELSE IF nid \notin thread_nodes
         THEN [ok |-> FALSE, valid |-> valid]
         ELSE ValidateFrom(thread_nodes, Tail(node_ids), seen \cup {nid}, Append(valid, nid))

validate_node_ids(thread_nodes, node_ids) == ValidateFrom(thread_nodes, node_ids, {}, << >>)

\* for nid in ids: if nid in seen: continue; active.append(nid); seen.add(nid)
RECURSIVE AppendUnseen(_, _)
AppendUnseen(active, ids) ==
    IF ids = << >> THEN active
    ELSE IF Head(ids) \in Range(active)
         THEN AppendUnseen(active, Tail(ids))
         ELSE AppendUnseen(Append(active, Head(ids)), Tail(ids))

\* The list activate_nodes would store with neither the seen set nor the
\* normalisation of the snapshot.
activate_nodes_appending(active, to_add) == active \o to_add

\* context_sets.py lines 186-196: the list activate_nodes stores.
activate_nodes(active, to_add) == snapshot_context_set(AppendUnseen(active, to_add))

\* context_sets.py lines 206-211: the list deactivate_nodes stores.
deactivate_nodes(before, remove_ids) ==
    snapshot_context_set(SelectSeq(before, LAMBDA nid : nid \notin Range(remove_ids)))

\* context_sets.py lines 222-238: the list reorder_nodes stores.
reorder_nodes(current, requested) ==
    LET reordered == AppendUnseen(<< >>, SelectSeq(requested, LAMBDA nid : nid \in Range(current)))
    IN snapshot_context_set(AppendUnseen(reordered, current))

\* graph.py lines 40-49: new_ids in place of the first old_id, the other
\* old_id dropped; new_ids at the end when old_id is absent.
RECURSIVE ExpandIn(_, _, _, _)
ExpandIn(active_ids, old_id, new_ids, replaced) ==
    IF active_ids = << >> THEN (IF replaced THEN << >> ELSE new_ids)
    ELSE IF Head(active_ids) = old_id
         THEN (IF replaced THEN << >> ELSE new_ids) \o ExpandIn(Tail(active_ids), old_id, new_ids, TRUE)
         ELSE <<Head(active_ids)>> \o ExpandIn(Tail(active_ids), old_id, new_ids, replaced)

\* graph.py lines 36-58: replace_ids_in_order.
replace_ids_in_order(active_ids, old_id, new_ids) ==
    AppendUnseen(<< >>, ExpandIn(active_ids, old_id, new_ids, FALSE))

\* folds.py lines 104-107: the targets of the fold's FOLDS edges; create_fold
\* writes them in the order of their index.
FoldMembers(edges, fold_id) ==
    LET direct_edges == SelectSeq(edges, LAMBDA e : e.from_id = fold_id /\ e.type = "FOLDS")
    IN [i \in 1..Len(direct_edges) |-> direct_edges[i].to_id]

\* folds.py line 21.
DefaultUnfoldEdges == <<"FOLDS", "DEPENDS", "HAS_PART", "SPLIT_FROM", "REFERENCES">>

\* folds.py lines 109-116: expanded_members.
ExpandedMembers(edges, fold_id, cargs) ==
    LET members == FoldMembers(edges, fold_id)
        closure_explain == expand_closure_from_edges(
                               IF members = << >> THEN <<fold_id>> ELSE members, edges,
                               cargs.closure_edge_types, cargs.max_closure_nodes,
                               cargs.closure_direction)
    IN SelectSeq(closure_explain.ordered_ids, LAMBDA nid : nid # fold_id)

\* folds.py lines 117-127: the list unfold stores.
unfold(active, fold_id, expanded_members, replace_only_fold) ==
    IF replace_only_fold
    THEN snapshot_context_set(replace_ids_in_order(active, fold_id, expanded_members))
    ELSE snapshot_context_set(SelectSeq(AppendUnseen(active, expanded_members),
                                        LAMBDA nid : nid # fold_id))

\* nodes.py lines 506-516: the list split_node stores; no snapshot is taken.
split_node(active, parent_id, created_ids, replace_in_active) ==
    LET kept == IF replace_in_active
                THEN SelectSeq(active, LAMBDA nid : nid # parent_id)
                ELSE active
    IN AppendUnseen(kept, created_ids)

\* nodes.py lines 476-480: the HAS_PART and SPLIT_FROM edges of the children.
RECURSIVE SplitEdges(_, _)
SplitEdges(parent_id, created_ids) ==
    IF created_ids = << >> THEN << >>
    ELSE <<Edge(parent_id, Head(created_ids), "HAS_PART"),
           Edge(Head(created_ids), parent_id, "SPLIT_FROM")>>
         \o SplitEdges(parent_id, Tail(created_ids))

\* messages.py lines 101-111: the list add_resource stores; no snapshot is taken.
add_resource(active_ids, node_id) ==
    IF node_id \notin Range(active_ids) THEN Append(active_ids, node_id) ELSE active_ids

\* threads.py lines 257-263: the list delete_node stores.
delete_node(active, node_id) ==
    LET next_active == SelectSeq(active, LAMBDA nid : nid # node_id)
    IN IF Len(next_active) = Len(active) THEN active ELSE snapshot_context_set(next_active)

\* graph.py lines 61-66 with the texts of the thread: load_thread_graph's
\* nodes, in the order of their creation.
CtxText(nid) == IF nid = 2 THEN TextHiHi ELSE TextHi

ThreadNodeList(thread_nodes) ==
    LET ids == SortedIds(thread_nodes)
    IN [i \in 1..Len(ids) |-> Node(ids[i], CtxText(ids[i]))]

\* context_sets.py lines 276-291: the list apply_unfold_plan stores.
apply_unfold_plan(current_active, seed_ids, thread_nodes, edges, budget_tokens, cargs) ==
    snapshot_context_set(
        apply_unfold_seed_selection(seed_ids, ThreadNodeList(thread_nodes), edges,
                                    current_active, budget_tokens, cargs).next_active_ids)

\* Whether appending ids to active without a look at what is there would
\* store an id twice.
Repeats(active, ids) == ~NoDup(active \o ids)

\* The thread the context set is created in: messages 1 and 2 and the fold
\* 3 of both as create_fold writes it (folds.py lines 75-77), without or
\* with a REFERENCES edge between the messages.
FoldEdges ==
    <<Edge(3, 1, "FOLDS"), Edge(3, 1, "DEPENDS"), Edge(3, 2, "FOLDS"), Edge(3, 2, "DEPENDS")>>

CtxEdgeLists == {FoldEdges \o <<Edge(1, 2, "REFERENCES")>>}

\* body.node_ids and body.seed_node_ids: single ids, a pair in both orders,
\* an id twice, an empty id, a node that was never created.
CtxRequests == {<<1>>, <<4>>, <<2, 1>>, <<3, 3>>, <<2, 0, 2>>, <<5, 4>>}

\* body.seed_node_ids with body.budget_tokens.
SeedRequests == {<<<<1>>, 1200>>, <<<<3, 3>>, 1200>>, <<<<5, 4>>, 1>>, <<<<4>>, 1>>}

\* The closure arguments of an unfold request: the types of folds.py line
\* 21 in both directions, and those of the planner along out edges with
\* at most two nodes.
UnfoldClosureArgs ==
    {ClosureArgs(DefaultUnfoldEdges, "both", <<12>>),
     ClosureArgs(DefaultClosureTypes, "out", <<2>>)}

\* The closure arguments of an apply_unfold_plan request: the types of
\* context_sets.py line 22.
PlannerClosureArgs == ClosureArgs(DefaultClosureTypes, "both", <<12>>)

\* The number of non-empty chunks a split yields.
ChunkCounts == {1, 2}

\* The nodes a split or a delete request names.
SplitRequests == {1}
DeleteRequests == {2, 4}

(***************************************************************************)
(* Calls of ordered_unique on its own: goc_core/context_ops.py lines 7-15. *)
(* ids is the argument, out the list returned, again the list returned    *)
(* when out is passed back in.                                             *)
(***************************************************************************)
NoDedupe == [pc |-> "idle", ids |-> << >>, out |-> << >>, again |-> << >>]

MaxListLen == 4

\* An entry of the argument: a non-string, the empty string, three ids.
Entries == {-1, 0, 1, 2, 3}

DedupeInputs == SeqsUpTo(Entries, MaxListLen)

(***************************************************************************)
(* The inputs of the closure calls explored.                               *)
(***************************************************************************)
\* Every DEPENDS edge between ids, a second allowed type on one pair, an
\* edge of a type no call allows, and an edge with an empty endpoint.
EdgeUniverse ==
    <<Edge(1, 1, "DEPENDS"), Edge(1, 2, "DEPENDS"), Edge(1, 2, "HAS_PART"),
      Edge(1, 3, "DEPENDS"), Edge(1, 3, "NEXT"), Edge(2, 1, "DEPENDS"),
      Edge(2, 2, "DEPENDS"), Edge(2, 3, "DEPENDS"), Edge(3, 1, "DEPENDS"),
      Edge(3, 2, "DEPENDS"), Edge(3, 3, "DEPENDS"), Edge(0, 1, "DEPENDS")>>

\* Edge lists of at most MaxEdges edges, repeats allowed, one per multiset.
EdgeLists ==
    UNION {{[i \in 1..n |-> EdgeUniverse[ix[i]]] :
              ix \in {jx \in [1..n -> 1..Len(EdgeUniverse)] :
                        \A i \in 1..n : \A j \in i..n : jx[i] <= jx[j]}} :
           n \in 0..MaxEdges}

SeedLists == {<< >>, <<0>>, <<1>>, <<3>>, <<2, 1>>, <<1, 0, 1>>}

AllowedLists == {<< >>, <<"">>, <<"HAS_PART", "DEPENDS">>}

CapChoices == {<< >>} \cup {<<n>> : n \in 0..MaxCap}

Directions == {"out", "in", "both", "sideways"}

\* One edge repeated: the inputs whose traversal records more edges than
\* the returned trace holds.
RepeatedEdgeLists ==
    {[i \in 1..k |-> e] : k \in 0..MaxRepeat, e \in {Edge(1, 1, "DEPENDS"), Edge(1, 2, "DEPENDS")}}

Init ==
    /\ closure \in {NewFrame(s, e, a, m, d) :
                      s \in SeedLists, e \in EdgeLists, a \in AllowedLists,
                      m \in CapChoices, d \in Directions}
    /\ refused = FALSE
    /\ compile = NoCompile
    /\ plan = NoPlan
    /\ apply = NoApply
    /\ hier = NoHier
    /\ embed = NoEmbed
    /\ ctx = NoCtx
    /\ dedupe = NoDedupe

InitTrace ==
    /\ closure \in {NewFrame(<<1>>, e, <<"DEPENDS">>, << >>, d) :
                      e \in RepeatedEdgeLists, d \in {"out", "both"}}
    /\ refused = FALSE
    /\ compile = NoCompile
    /\ plan = NoPlan
    /\ apply = NoApply
    /\ hier = NoHier
    /\ embed = NoEmbed
    /\ ctx = NoCtx
    /\ dedupe = NoDedupe

Start ==
    /\ closure.pc = "start"
    /\ closure' = StartStep(closure)
    /\ UNCHANGED <<refused, compile, plan, apply, hier, embed, ctx, dedupe>>

Pop ==
    /\ CanPop(closure)
    /\ closure' = PopStep(closure)
    /\ UNCHANGED <<refused, compile, plan, apply, hier, embed, ctx, dedupe>>

\* refused records that some _offer call was turned down at the cap.
Offer ==
    /\ CanOffer(closure)
    /\ closure' = OfferStep(closure)
    /\ refused' = (refused \/ OfferRefused(closure, Head(closure.pending)[2]))
    /\ UNCHANGED <<compile, plan, apply, hier, embed, ctx, dedupe>>

Finish ==
    /\ CanFinish(closure)
    /\ closure' = FinishStep(closure)
    /\ UNCHANGED <<refused, compile, plan, apply, hier, embed, ctx, dedupe>>

Next == Start \/ Pop \/ Offer \/ Finish

Spec == Init /\ [][Next]_vars

SpecTrace == InitTrace /\ [][Next]_vars

\* No closure call in progress.
NoClosure == [NewFrame(<< >>, << >>, << >>, << >>, "out") EXCEPT !.pc = "idle"]

InitCompile ==
    /\ closure = NoClosure
    /\ refused = FALSE
    /\ compile \in {[NoCompile EXCEPT !.pc = "start", !.records = r,
                                       !.active_ids = a, !.edges = e] :
                      r \in RecordLists, a \in ActiveLists, e \in PartEdgeLists}
    /\ plan = NoPlan
    /\ apply = NoApply
    /\ hier = NoHier
    /\ embed = NoEmbed
    /\ ctx = NoCtx
    /\ dedupe = NoDedupe

Compile ==
    /\ compile.pc = "start"
    /\ compile' = [compile EXCEPT
                      !.pc = "done",
                      !.returned = <<compile_active_context_records(
                                       compile.records, compile.active_ids, compile.edges)>>]
    /\ UNCHANGED <<closure, refused, plan, apply, hier, embed, ctx, dedupe>>

NextCompile == Compile

SpecCompile == InitCompile /\ [][NextCompile]_vars

InitPlan ==
    /\ closure = NoClosure
    /\ refused = FALSE
    /\ compile = NoCompile
    /\ plan \in {[NoPlan EXCEPT !.pc = "start", !.query = qy, !.nodes = n, !.edges = e,
                                 !.active_ids = a, !.top_k = lim[1],
                                 !.max_candidates = lim[2], !.budget_tokens = b,
                                 !.cargs = c] :
                   qy \in Queries, n \in PlanNodeLists, e \in PlanEdgeLists,
                   a \in PlanActiveLists, lim \in PlanLimits, b \in Budgets,
                   c \in PlanClosureArgs}
    /\ apply = NoApply
    /\ hier = NoHier
    /\ embed = NoEmbed
    /\ ctx = NoCtx
    /\ dedupe = NoDedupe

Plan ==
    /\ plan.pc = "start"
    /\ plan' = [plan EXCEPT
                   !.pc = "done",
                   !.returned = <<plan_unfold_candidates(
                                    plan.query, plan.nodes, plan.edges, plan.active_ids,
                                    plan.top_k, plan.max_candidates, plan.budget_tokens,
                                    plan.cargs)>>]
    /\ UNCHANGED <<closure, refused, compile, apply, hier, embed, ctx, dedupe>>

NextPlan == Plan

SpecPlan == InitPlan /\ [][NextPlan]_vars

InitApply ==
    /\ closure = NoClosure
    /\ refused = FALSE
    /\ compile = NoCompile
    /\ plan = NoPlan
    /\ hier = NoHier
    /\ embed = NoEmbed
    /\ ctx = NoCtx
    /\ dedupe = NoDedupe
    /\ apply \in {[NoApply EXCEPT !.pc = "start", !.seed_node_ids = sd, !.nodes = n,
                                   !.edges = e, !.active_ids = a, !.budget_tokens = b,
                                   !.cargs = c] :
                    sd \in ApplySeedLists, n \in PlanNodeLists, e \in PlanEdgeLists,
                    a \in PlanActiveLists, b \in Budgets, c \in PlanClosureArgs}

Apply ==
    /\ apply.pc = "start"
    /\ apply' = [apply EXCEPT
                    !.pc = "done",
                    !.returned = <<apply_unfold_seed_selection(
                                     apply.seed_node_ids, apply.nodes, apply.edges,
                                     apply.active_ids, apply.budget_tokens, apply.cargs)>>]
    /\ UNCHANGED <<closure, refused, compile, plan, hier, embed, ctx, dedupe>>

NextApply == Apply

SpecApply == InitApply /\ [][NextApply]_vars

InitHier ==
    /\ closure = NoClosure
    /\ refused = FALSE
    /\ compile = NoCompile
    /\ plan = NoPlan
    /\ apply = NoApply
    /\ hier \in HierRequests
    /\ embed = NoEmbed
    /\ ctx = NoCtx
    /\ dedupe = NoDedupe

\* POST /threads/{id}/hierarchy_preview: one call of build_hierarchy_preview.
Preview ==
    /\ hier.pc \in {"serving", "served", "restarted"}
    /\ \E out \in {build_hierarchy_preview(hier.nodes, hier.edges, hier.rows, hier.fresh,
                                             hier.index, hier.node_ids, hier.max_leaf_size,
                                             hier.lexical)} :
          hier' = [hier EXCEPT !.pc = IF @ = "serving" THEN "served" ELSE "compared",
                               !.rows = out.rows, !.index = out.index,
                               !.runs = Append(@, [lexical |-> hier.lexical,
                                                   rows_before |-> hier.rows,
                                                   error |-> out.error,
                                                   root |-> out.root,
                                                   leaf_layout |-> out.leaf_layout,
                                                   selected_nodes |-> out.selected_nodes,
                                                   top_groups |-> out.top_groups,
                                                   top_items |-> out.top_items])]
    /\ UNCHANGED <<closure, refused, compile, plan, apply, embed, ctx, dedupe>>

\* The server process is restarted: hash() of a string changes with it.
RestartProcess ==
    /\ hier.pc = "served"
    /\ hier' = [hier EXCEPT !.pc = "restarted", !.lexical = LexicalB]
    /\ UNCHANGED <<closure, refused, compile, plan, apply, embed, ctx, dedupe>>

NextHier == Preview \/ RestartProcess

SpecHier == InitHier /\ [][NextHier]_vars

InitEmbed ==
    /\ closure = NoClosure
    /\ refused = FALSE
    /\ compile = NoCompile
    /\ plan = NoPlan
    /\ apply = NoApply
    /\ hier = NoHier
    /\ embed \in {[NoEmbed EXCEPT !.pc = "ready", !.stored = s, !.stored_before = s,
                                   !.fresh = f, !.query = q, !.index = i] :
                    s \in StoredChoices, f \in FreshChoices, q \in QueryChoices,
                    i \in IndexChoices}
    /\ ctx = NoCtx
    /\ dedupe = NoDedupe

EnsureNodeEmbedding ==
    /\ embed.pc = "ready"
    /\ LET out == ensure_node_embedding(TheNode, embed.stored, embed.fresh, embed.index)
       IN embed' = [embed EXCEPT !.pc = "done", !.op = "ensure_node_embedding",
                                 !.error = out.error, !.stored = out.row,
                                 !.index = out.index, !.computed = out.computed,
                                 !.vector = IF out.error THEN NoVec
                                            ELSE ExistingVec(out.row).vec]
    /\ UNCHANGED <<closure, refused, compile, plan, apply, hier, ctx, dedupe>>

EnsureNodesEmbeddings ==
    /\ embed.pc = "ready"
    /\ LET out == ensure_nodes_embeddings(<<TheNode>>, <<embed.stored>>, <<embed.fresh>>,
                                          embed.index)
       IN embed' = [embed EXCEPT !.pc = "done", !.op = "ensure_nodes_embeddings",
                                 !.error = out.error, !.stored = out.rows[1],
                                 !.index = out.index,
                                 !.computed = ExistingVec(embed.stored).len = 0,
                                 !.vector = IF out.error THEN NoVec
                                            ELSE ExistingVec(out.rows[1]).vec]
    /\ UNCHANGED <<closure, refused, compile, plan, apply, hier, ctx, dedupe>>

\* hierarchy.py lines 406-408: the vector of the node from its stored row.
HierarchyVectorization ==
    /\ embed.pc = "ready"
    /\ embed' = [embed EXCEPT !.pc = "done", !.op = "_vector_for_node",
                              !.error = FALSE,
                              !.vector = VectorForNode(TheNode, embed.stored, LexicalA[1])]
    /\ UNCHANGED <<closure, refused, compile, plan, apply, hier, ctx, dedupe>>

RebuildThreadIndex ==
    /\ embed.pc = "ready"
    /\ LET out == rebuild_thread_index(TheNode, embed.stored)
       IN embed' = [embed EXCEPT !.pc = "done", !.op = "rebuild_thread_index",
                                 !.error = FALSE, !.index = out.index,
                                 !.vector = out.index[1]]
    /\ UNCHANGED <<closure, refused, compile, plan, apply, hier, ctx, dedupe>>

SearchNodes ==
    /\ embed.pc = "ready"
    /\ LET out == search_nodes(TheNode, embed.stored, embed.fresh, embed.query, embed.index)
       IN embed' = [embed EXCEPT !.pc = "done", !.op = "search_nodes",
                                 !.error = out.error, !.stored = out.rows[1],
                                 !.index = out.index, !.computed = out.computed,
                                 !.vector = IF out.error THEN NoVec ELSE out.index[1]]
    /\ UNCHANGED <<closure, refused, compile, plan, apply, hier, ctx, dedupe>>

NextEmbed ==
    \/ EnsureNodeEmbedding
    \/ EnsureNodesEmbeddings
    \/ HierarchyVectorization
    \/ RebuildThreadIndex
    \/ SearchNodes

SpecEmbed == InitEmbed /\ [][NextEmbed]_vars

(***************************************************************************)
(* The handlers that write the active list of a context set.               *)
(***************************************************************************)
\* context_sets.py lines 70-80 and models.py line 65: a context set is
\* created with the empty list.
InitCtx ==
    /\ closure = NoClosure
    /\ refused = FALSE
    /\ compile = NoCompile
    /\ plan = NoPlan
    /\ apply = NoApply
    /\ hier = NoHier
    /\ embed = NoEmbed
    /\ dedupe = NoDedupe
    /\ ctx \in {[pc |-> "open", nodes |-> Ids, folds |-> {3}, edges |-> edges,
                 active |-> << >>, fresh |-> NewIds,
                 last |-> [op |-> "create", repeat |-> FALSE]] : edges \in CtxEdgeLists}

Others == <<closure, refused, compile, plan, apply, hier, embed, dedupe>>

\* POST /context_sets/{id}/activate
Activate ==
    /\ ctx.pc = "open"
    /\ \E node_ids \in CtxRequests :
         \E v \in {validate_node_ids(ctx.nodes, node_ids)} :
            /\ v.ok
            /\ ctx' = [ctx EXCEPT !.active = activate_nodes(ctx.active, v.valid),
                                  !.last = [op |-> "activate",
                                            repeat |-> Repeats(ctx.active, node_ids)]]
    /\ UNCHANGED Others

\* POST /context_sets/{id}/deactivate
Deactivate ==
    /\ ctx.pc = "open"
    /\ \E node_ids \in CtxRequests :
         \E v \in {validate_node_ids(ctx.nodes, node_ids)} :
            /\ v.ok
            /\ ctx' = [ctx EXCEPT !.active = deactivate_nodes(ctx.active, v.valid),
                                  !.last = [op |-> "deactivate", repeat |-> FALSE]]
    /\ UNCHANGED Others

\* POST /context_sets/{id}/reorder
Reorder ==
    /\ ctx.pc = "open"
    /\ \E node_ids \in CtxRequests :
         \E v \in {validate_node_ids(ctx.nodes, node_ids)} :
            /\ v.ok
            /\ ctx' = [ctx EXCEPT !.active = reorder_nodes(ctx.active, v.valid),
                                  !.last = [op |-> "reorder",
                                            repeat |-> ~NoDup(node_ids)]]
    /\ UNCHANGED Others

\* POST /context_sets/{id}/apply_unfold_plan
ApplyUnfoldPlan ==
    /\ ctx.pc = "open"
    /\ \E req \in SeedRequests :
         \E v \in {validate_node_ids(ctx.nodes, req[1])} :
            /\ v.ok
            /\ \E next_active \in {apply_unfold_plan(ctx.active, v.valid, ctx.nodes, ctx.edges,
                                                     req[2], PlannerClosureArgs)} :
                  ctx' = [ctx EXCEPT !.active = next_active,
                                     !.last = [op |-> "apply_unfold_plan",
                                               repeat |-> Repeats(ctx.active, req[1])]]
    /\ UNCHANGED Others

\* POST /context_sets/{id}/unfold/{fold_id}
Unfold ==
    /\ ctx.pc = "open"
    /\ \E fold_id \in ctx.folds, cargs \in UnfoldClosureArgs :
         \E expanded_members \in {ExpandedMembers(ctx.edges, fold_id, cargs)}, replace_only_fold \in BOOLEAN :
            ctx' = [ctx EXCEPT !.active = unfold(ctx.active, fold_id, expanded_members,
                                                 replace_only_fold),
                               !.last = [op |-> IF replace_only_fold
                                                THEN "unfold_replace" ELSE "unfold_append",
                                         repeat |-> Repeats(ctx.active, expanded_members)]]
    /\ UNCHANGED Others

\* POST /nodes/{node_id}/split
SplitNode ==
    /\ ctx.pc = "open"
    /\ \E parent_id \in SplitRequests \cap ctx.nodes, chunks \in ChunkCounts,
          replace_in_active \in BOOLEAN, with_context_set \in {TRUE} :
         /\ chunks <= Len(ctx.fresh)
         /\ \E created_ids \in {SubSeq(ctx.fresh, 1, chunks)} :
               ctx' = [ctx EXCEPT !.nodes = @ \cup Range(created_ids),
                                  !.edges = @ \o SplitEdges(parent_id, created_ids),
                                  !.fresh = SubSeq(@, chunks + 1, Len(@)),
                                  !.active = IF with_context_set
                                             THEN split_node(@, parent_id, created_ids,
                                                             replace_in_active)
                                             ELSE @,
                                  !.last = [op |-> IF with_context_set
                                                   THEN "split_node" ELSE "split_node_only",
                                            repeat |-> FALSE]]
    /\ UNCHANGED Others

\* POST /threads/{thread_id}/resources
AddResource ==
    /\ ctx.pc = "open"
    /\ ctx.fresh # << >>
    /\ \E auto_activate \in {TRUE} :
         ctx' = [ctx EXCEPT !.nodes = @ \cup {Head(ctx.fresh)},
                            !.fresh = Tail(@),
                            !.active = IF auto_activate
                                       THEN add_resource(@, Head(ctx.fresh)) ELSE @,
                            !.last = [op |-> IF auto_activate
                                             THEN "add_resource" ELSE "add_resource_only",
                                      repeat |-> FALSE]]
    /\ UNCHANGED Others

\* DELETE /threads/{thread_id}/nodes/{node_id}
DeleteNode ==
    /\ ctx.pc = "open"
    /\ \E node_id \in DeleteRequests \cap ctx.nodes :
         ctx' = [ctx EXCEPT !.nodes = @ \ {node_id},
                            !.folds = @ \ {node_id},
                            !.edges = SelectSeq(@, LAMBDA e : e.from_id # node_id
                                                              /\ e.to_id # node_id),
                            !.active = delete_node(@, node_id),
                            !.last = [op |-> "delete_node", repeat |-> FALSE]]
    /\ UNCHANGED Others

NextCtx ==
    \/ Activate
    \/ Deactivate
    \/ Reorder
    \/ ApplyUnfoldPlan
    \/ Unfold
    \/ SplitNode
    \/ AddResource
    \/ DeleteNode

SpecCtx == InitCtx /\ [][NextCtx]_vars

(***************************************************************************)
(* ordered_unique called on a list, and again on what it returned.         *)
(***************************************************************************)
InitDedupe ==
    /\ closure = NoClosure
    /\ refused = FALSE
    /\ compile = NoCompile
    /\ plan = NoPlan
    /\ apply = NoApply
    /\ hier = NoHier
    /\ embed = NoEmbed
    /\ ctx = NoCtx
    /\ dedupe \in {[NoDedupe EXCEPT !.pc = "called", !.ids = ids] : ids \in DedupeInputs}

\* ordered_unique(ids)
DedupeCall ==
    /\ dedupe.pc = "called"
    /\ dedupe' = [dedupe EXCEPT !.pc = "returned", !.out = ordered_unique(dedupe.ids)]
    /\ UNCHANGED <<closure, refused, compile, plan, apply, hier, embed, ctx>>

\* ordered_unique(ordered_unique(ids))
DedupeCallAgain ==
    /\ dedupe.pc = "returned"
    /\ dedupe' = [dedupe EXCEPT !.pc = "repeated", !.again = ordered_unique(dedupe.out)]
    /\ UNCHANGED <<closure, refused, compile, plan, apply, hier, embed, ctx>>

NextDedupe == DedupeCall \/ DedupeCallAgain

SpecDedupe == InitDedupe /\ [][NextDedupe]_vars

(***************************************************************************)
(* Properties of expand_closure_from_edges.                                *)
(***************************************************************************)
Returned == closure.pc = "done"

\* The call went past the early return and ran the traversal to its end.
Traversed == Returned /\ closure.seed_order # << >> /\ closure.allowed # {}

\* The pairs <<u, v>> with an edge u -> v the adjacency loop keeps.
KeptPairs(f) ==
    {<<f.edges[i].from_id, f.edges[i].to_id>> :
        i \in {j \in 1..Len(f.edges) : EdgeKept(f.edges[j], f.allowed)}}

Inverse(R) == {<<p[2], p[1]>> : p \in R}

\* The least set holding S and closed under R-successors.
RECURSIVE ReachableFrom(_, _)
ReachableFrom(S, R) ==
    LET more == S \cup {p[2] : p \in {r \in R : r[1] \in S}}
    IN IF more = S THEN S ELSE ReachableFrom(more, R)

\* C1: with max_nodes set, a truncated result holds at most max_nodes ids,
\* and a call in which no offer of a new node was refused is not truncated.
C1_CapRespected ==
    Returned /\ closure.max_nodes # << >> =>
        /\ closure.result.truncated =>
               Len(closure.result.ordered_ids) <= closure.max_nodes[1]
        /\ ~refused => ~closure.result.truncated

\* C2: with direction in or both, seeds and no cap, ordered_ids holds every
\* node from which a seed is reachable along kept edges (in), and every node
\* connected to a seed by kept edges followed either way (both).
C2_InNeighboursAdmitted ==
    Traversed /\ closure.max_nodes = << >> =>
        /\ closure.direction_arg = "in" =>
               ReachableFrom(Range(closure.seed_order), Inverse(KeptPairs(closure)))
                   \subseteq Range(closure.result.ordered_ids)
        /\ closure.direction_arg = "both" =>
               ReachableFrom(Range(closure.seed_order),
                             KeptPairs(closure) \cup Inverse(KeptPairs(closure)))
                   \subseteq Range(closure.result.ordered_ids)

\* C3: with direction out, seeds and no cap, ordered_ids is the deduplicated
\* seeds in their order, then exactly the other nodes reachable from a seed
\* along kept edges, in ascending id order; the result is not truncated.
C3_OutClosureSortedAfterSeeds ==
    Traversed /\ closure.max_nodes = << >> /\ closure.direction_arg = "out" =>
        LET seeds == ordered_unique(closure.seed_ids)
            out == closure.result.ordered_ids
            rest == SubSeq(out, Len(seeds) + 1, Len(out))
        IN /\ Len(out) >= Len(seeds)
           /\ SubSeq(out, 1, Len(seeds)) = seeds
           /\ \A i, j \in 1..Len(rest) : i < j => rest[i] < rest[j]
           /\ Range(rest) = ReachableFrom(Range(seeds), KeptPairs(closure)) \ Range(seeds)
           /\ closure.result.truncated = FALSE

\* A run whose first discovered node is not the first one emitted.
C3_Witness ==
    /\ Traversed /\ closure.max_nodes = << >> /\ closure.direction_arg = "out"
    /\ closure.result.ordered_ids = <<1, 2, 3>>
    /\ closure.result.edge_trace[1].to = 3

\* C4: with no seed left after deduplication, or no allowed type, the call
\* returns the deduplicated seeds, nothing added, an empty trace, a zero
\* edge count and truncated false, and never starts the traversal.
C4_EmptyInputsNoTraversal ==
    Returned /\ (ordered_unique(closure.seed_ids) = << >>
                 \/ \A i \in 1..Len(closure.allowed_types) : closure.allowed_types[i] = "") =>
        /\ closure.result.ordered_ids = ordered_unique(closure.seed_ids)
        /\ closure.result.seed_ids = closure.result.ordered_ids
        /\ closure.result.closure_added_ids = << >>
        /\ closure.result.edge_trace = << >>
        /\ closure.result.visited_edge_count = 0
        /\ closure.result.truncated = FALSE
        /\ closure.visited = {} /\ closure.q = << >> /\ closure.edge_trace = << >>

\* Seeds and edges and a cap of zero, but no allowed type.
C4_Witness ==
    /\ Returned
    /\ closure.seed_ids = <<2, 1>> /\ closure.allowed_types = <<"">>
    /\ Len(closure.edges) = MaxEdges /\ closure.max_nodes = <<0>>
    /\ closure.direction_arg = "both"

\* Every reordering of an edge list.
PermutationsOf(s) ==
    {[i \in 1..Len(s) |-> s[p[i]]] : p \in Permutations(1..Len(s))}

\* C5: every reordering of the edge list, with the other arguments kept,
\* returns the same ordered_ids, truncated flag and edge_trace.
C5_EdgeOrderIndependent ==
    Returned =>
        \A es \in PermutationsOf(closure.edges) :
            LET r == expand_closure_from_edges(closure.seed_ids, es, closure.allowed_types,
                                               closure.max_nodes, closure.direction_arg)
            IN /\ r.ordered_ids = closure.result.ordered_ids
               /\ r.truncated = closure.result.truncated
               /\ r.edge_trace = closure.result.edge_trace

\* A truncated run over two different edges out of the seed.
C5_Witness ==
    /\ Traversed /\ closure.result.truncated
    /\ Len(closure.edges) >= 2 /\ closure.edges[1] # closure.edges[2]
    /\ Len(closure.result.edge_trace) >= 1

\* C6 as stated: visited_edge_count is the length of the returned
\* edge_trace, which has at most TraceCap entries.
C6_CountIsReturnedTraceLength ==
    Returned =>
        /\ closure.result.visited_edge_count = Len(closure.result.edge_trace)
        /\ Len(closure.result.edge_trace) <= TraceCap

\* C6 amended: visited_edge_count is the number of edges the traversal
\* recorded, and the returned edge_trace is their first TraceCap entries.
C6_CountIsRecordedEdges ==
    Returned =>
        /\ closure.result.visited_edge_count = Len(closure.edge_trace)
        /\ Len(closure.result.edge_trace) = Min2(closure.result.visited_edge_count, TraceCap)
        /\ \A i \in 1..Len(closure.result.edge_trace) :
               closure.result.edge_trace[i] = closure.edge_trace[i]

\* A traversal that recorded more edges than the returned trace holds.
C6_Witness == Returned /\ closure.result.visited_edge_count > TraceCap

(***************************************************************************)
(* Properties of compile_active_context_records.                           *)
(***************************************************************************)
Compiled == compile.pc = "done"

Explain == compile.returned[1].explain

\* The ids of active_ids that have a record.
ActiveWithRecord ==
    ({compile.active_ids[i] : i \in 1..Len(compile.active_ids)}
        \cap {compile.records[i].id : i \in 1..Len(compile.records)}) \ {0}

\* c is an active child of p: c's payload names p, or a HAS_PART edge runs
\* from p to c.
ActiveChild(p, c) ==
    /\ p \in ActiveWithRecord /\ c \in ActiveWithRecord
    /\ \/ ById(compile.records, c).parent_id = p
       \/ \E i \in 1..Len(compile.edges) :
              compile.edges[i] = Edge(p, c, "HAS_PART")

\* C7: excluded_parent_ids holds exactly the active nodes that have some
\* other active node as child.
C7_ExcludedIffOtherActiveChild ==
    Compiled =>
        Range(Explain.excluded_parent_ids) =
            {p \in ActiveWithRecord : \E c \in ActiveWithRecord : c # p /\ ActiveChild(p, c)}

\* First position of x in s.
FirstIndex(s, x) == CHOOSE i \in 1..Len(s) : s[i] = x /\ \A j \in 1..(i - 1) : s[j] # x

\* a is b with some entries left out, the others in their order.
RECURSIVE IsSubsequence(_, _)
IsSubsequence(a, b) ==
    IF a = << >> THEN TRUE
    ELSE IF b = << >> THEN FALSE
    ELSE IF Head(a) = Head(b) THEN IsSubsequence(Tail(a), Tail(b))
    ELSE IsSubsequence(a, Tail(b))

\* C8: active_input_ids is the ids of active_ids that have a record, each
\* once, in the order of their first occurrence; kept and excluded ids
\* partition it; the kept ids, which are the rendered blocks in order, are
\* active_input_ids without the excluded ones; the counts add up.
C8_KeptAndExcludedPartitionInput ==
    Compiled =>
        LET inp == Explain.active_input_ids
            kept == Explain.kept_node_ids
            excl == Explain.excluded_parent_ids
        IN /\ NoDup(inp)
           /\ Range(inp) = ActiveWithRecord
           /\ \A i, j \in 1..Len(inp) :
                  i < j => FirstIndex(compile.active_ids, inp[i])
                             < FirstIndex(compile.active_ids, inp[j])
           /\ Range(kept) \cup Range(excl) = Range(inp)
           /\ Range(kept) \cap Range(excl) = {}
           /\ NoDup(kept) /\ NoDup(excl)
           /\ IsSubsequence(kept, inp) /\ IsSubsequence(excl, inp)
           /\ compile.returned[1].parts = kept
           /\ Explain.kept_node_count = Len(kept)
           /\ Explain.active_input_count = Len(inp)
           /\ Explain.kept_node_count + Len(excl) = Explain.active_input_count

\* A repeated active id whose node is excluded as a parent of the kept node.
C8_Witness ==
    /\ Compiled
    /\ compile.active_ids = <<3, 1, 3>>
    /\ Explain.active_input_ids = <<3, 1>>
    /\ Explain.excluded_parent_ids = <<3>>
    /\ Explain.kept_node_ids = <<1>>

(***************************************************************************)
(* Unfold planner and apply.                                               *)
(***************************************************************************)
Planned == plan.pc = "done"
PlanResult == plan.returned[1]

Applied == apply.pc = "done"
ApplyResult == apply.returned[1]

\* C9: for every call of plan_unfold_candidates with budget_tokens >= 0, the
\* proposed total added cost, the sum of the token estimates of
\* recommended_added_ids reported as recommended_cost_tokens, never exceeds
\* budget_tokens.
C9_PlanCostWithinBudget ==
    (Planned /\ plan.budget_tokens >= 0) =>
        /\ PlanResult.recommended_cost_tokens
             = CostOf(plan.nodes, SortedIds(PlanResult.recommended_added_ids))
        /\ PlanResult.recommended_cost_tokens <= plan.budget_tokens

\* C10: for every call of apply_unfold_seed_selection with budget_tokens >= 0,
\* used_tokens is the sum of the token estimates of added_ids and is at most
\* budget_tokens; with budget_tokens = 0 no node of non-zero estimate is added.
C10_ApplyCostWithinBudget ==
    (Applied /\ apply.budget_tokens >= 0) =>
        /\ ApplyResult.used_tokens = CostOf(apply.nodes, ApplyResult.added_ids)
        /\ ApplyResult.used_tokens <= apply.budget_tokens
        /\ apply.budget_tokens = 0 =>
             \A i \in 1..Len(ApplyResult.added_ids) :
                 CostOf(apply.nodes, <<ApplyResult.added_ids[i]>>) = 0

\* The seed ids a greedy walk accepts when a candidate is taken exactly if
\* fewer than top_k were taken before it and the running cost plus the
\* estimates of its closure nodes not yet selected stays within budget.
RECURSIVE GreedyWithin(_, _, _, _, _, _, _)
GreedyWithin(cands, nodes, budget, top_k, selected, cost, taken) ==
    IF cands = << >> THEN << >>
    ELSE LET incr == CostOf(nodes, SelectSeq(Head(cands).closure_ids,
                                             LAMBDA nid : nid \notin selected))
         IN IF taken < top_k /\ cost + incr <= budget
            THEN <<Head(cands).seed_id>>
                 \o GreedyWithin(Tail(cands), nodes, budget, top_k,
                                 selected \cup Range(Head(cands).closure_ids),
                                 cost + incr, taken + 1)
            ELSE GreedyWithin(Tail(cands), nodes, budget, top_k, selected, cost, taken)

\* C11: plan_unfold_candidates walks the ranked candidates and accepts one
\* exactly if fewer than top_k were accepted before it and running cost plus
\* its incremental cost is at most budget_tokens; a candidate that does not
\* fit is skipped and the walk goes on.
C11_GreedyAcceptsIffFits ==
    Planned =>
        PlanResult.recommended_seed_ids
          = GreedyWithin(PlanResult.candidates, plan.nodes, plan.budget_tokens, plan.top_k,
                         Range(ordered_unique(plan.active_ids)), 0, 0)

\* The steps before step i that were accepted, their cost, and the ids they
\* added, in step order.
RECURSIVE UsedBefore(_, _)
UsedBefore(steps, i) ==
    IF i <= 1 THEN 0
    ELSE UsedBefore(steps, i - 1)
         + (IF steps[i - 1].accepted THEN steps[i - 1].candidate_cost_tokens ELSE 0)

RECURSIVE AddedBefore(_, _)
AddedBefore(steps, i) ==
    IF i <= 1 THEN << >>
    ELSE AddedBefore(steps, i - 1)
         \o (IF steps[i - 1].accepted THEN steps[i - 1].candidate_add_ids ELSE << >>)

\* C12: apply_unfold_seed_selection records one step per known seed of the
\* deduplicated seed list, in caller order; a step is accepted exactly if the
\* tokens used so far plus the seed's incremental closure cost is at most
\* budget_tokens; a rejected seed changes neither the active list nor
\* used_tokens, and later seeds are still judged on their own.
C12_StepAcceptedIffFits ==
    Applied =>
        LET steps == ApplyResult.steps
            active == ordered_unique(apply.active_ids)
            known == SelectSeq(ordered_unique(apply.seed_node_ids),
                               LAMBDA sd : sd \in NodeIds(apply.nodes))
        IN /\ [i \in 1..Len(steps) |-> steps[i].seed_id] = known
           /\ \A i \in 1..Len(steps) :
                /\ steps[i].candidate_add_ids
                     = SelectSeq(steps[i].closure.ordered_ids,
                                 LAMBDA nid : /\ nid \in NodeIds(apply.nodes)
                                              /\ nid \notin Range(active)
                                              /\ nid \notin Range(AddedBefore(steps, i)))
                /\ steps[i].candidate_cost_tokens
                     = CostOf(apply.nodes, steps[i].candidate_add_ids)
                /\ steps[i].accepted
                     <=> (UsedBefore(steps, i) + steps[i].candidate_cost_tokens
                            <= apply.budget_tokens)
           /\ ApplyResult.used_tokens = UsedBefore(steps, Len(steps) + 1)
           /\ ApplyResult.next_active_ids = active \o AddedBefore(steps, Len(steps) + 1)

\* The tuple (score / max(1, cost), score, -cost) of a is at least that of
\* b in lexicographic order, the quotients compared exactly.
ExactKeyAtLeast(a, b) ==
    LET ca == Max2(1, a.marginal_cost_tokens)
        cb == Max2(1, b.marginal_cost_tokens)
    IN \/ a.score * cb > b.score * ca
       \/ /\ a.score * cb = b.score * ca
          /\ \/ a.score > b.score
             \/ a.score = b.score /\ a.marginal_cost_tokens <= b.marginal_cost_tokens

\* The same with the reported marginal_ratio in the place of the quotient.
ReportedKeyAtLeast(a, b) ==
    \/ a.marginal_ratio > b.marginal_ratio
    \/ /\ a.marginal_ratio = b.marginal_ratio
       /\ \/ a.score > b.score
          \/ a.score = b.score /\ a.marginal_cost_tokens <= b.marginal_cost_tokens

\* A listed candidate is a non-active node with a positive score, and its
\* marginal cost is the sum of the estimates of its closure nodes not active.
CandidateWellFormed(c) ==
    LET active_set == Range(ordered_unique(plan.active_ids))
    IN /\ c.seed_id \in NodeIds(plan.nodes) \ active_set
       /\ c.score > 0
       /\ c.marginal_cost_tokens
            = CostOf(plan.nodes, SelectSeq(c.closure_ids, LAMBDA x : x \notin active_set))

\* C13 as stated: the candidates are in non-increasing order of
\* (marginal_ratio, score, -marginal_cost) with marginal_ratio the quotient
\* score / max(1, marginal_cost), and each is a non-active node of score > 0.
C13_SortedByExactRatio ==
    Planned =>
        LET cands == PlanResult.candidates
        IN /\ \A i \in 1..Len(cands) : CandidateWellFormed(cands[i])
           /\ \A i \in 1..Len(cands) - 1 : ExactKeyAtLeast(cands[i], cands[i + 1])

\* C13, amended: marginal_ratio is the quotient rounded to six decimals, and
\* the candidates are in non-increasing order of the tuple built from that
\* rounded value; each is a non-active node of score > 0.
C13_SortedByRoundedRatio ==
    Planned =>
        LET cands == PlanResult.candidates
        IN /\ \A i \in 1..Len(cands) :
                LET c == Max2(1, cands[i].marginal_cost_tokens)
                    d == cands[i].marginal_ratio * c - cands[i].score * 100
                IN /\ CandidateWellFormed(cands[i])
                   /\ 2 * d <= c /\ 2 * (0 - d) <= c
           /\ \A i \in 1..Len(cands) - 1 : ReportedKeyAtLeast(cands[i], cands[i + 1])

\* Two candidates whose quotients round to the same millionth, listed in the
\* order of their scores, and a call whose ranking reverses the node order.
C13_Witness ==
    /\ Planned
    /\ Len(PlanResult.candidates) = 2
    /\ PlanResult.candidates[1].marginal_ratio = PlanResult.candidates[2].marginal_ratio
    /\ PlanResult.candidates[1].score > PlanResult.candidates[2].score
    /\ PlanResult.candidates[1].seed_id = 2
    /\ ~ExactKeyAtLeast(PlanResult.candidates[1], PlanResult.candidates[2])

\* C14: for top_k >= 0 and max_candidates >= 0 the returned candidates list
\* has at most max_candidates entries and recommended_seed_ids has at most
\* top_k entries.
C14_CountLimitsRespected ==
    (Planned /\ plan.top_k >= 0 /\ plan.max_candidates >= 0) =>
        /\ Len(PlanResult.candidates) <= plan.max_candidates
        /\ Len(PlanResult.recommended_seed_ids) <= plan.top_k

(***************************************************************************)
(* Properties of build_hierarchy_preview.                                  *)
(***************************************************************************)
\* The requests that returned a tree.
Built(i) == i \in 1..Len(hier.runs) /\ ~hier.runs[i].error

\* The ids of the nodes a request selects (lines 374-378).
SelectedIds ==
    {hier.nodes[i].id : i \in {j \in 1..Len(hier.nodes) :
                                 hier.node_ids = << >> \/ hier.nodes[j].id \in hier.node_ids[1]}}

LayoutIds(i) == [k \in 1..Len(hier.runs[i].leaf_layout) |-> hier.runs[i].leaf_layout[k].node_id]

\* The edges that make a structural group over the selection: HAS_PART or
\* FOLDS, from a parent outside the selection to a selected child.
GroupingEdges ==
    {i \in 1..Len(hier.edges) :
        /\ hier.edges[i].type \in {"HAS_PART", "FOLDS"}
        /\ hier.edges[i].to_id \in SelectedIds
        /\ hier.edges[i].from_id \notin SelectedIds}

\* C15: the node ids of leaf_layout are the selected node ids, each exactly
\* once, whatever the HAS_PART and FOLDS edges are -- also when a selected
\* node is a child of two structural parents outside the selection.
C15_LeafLayoutCoversSelectionOnce ==
    \A i \in 1..Len(hier.runs) :
        Built(i) => /\ Range(LayoutIds(i)) = SelectedIds
                    /\ NoDup(LayoutIds(i))

\* Every node of a tree that has children lists the leaves of its children,
\* in child order, and counts them.
RECURSIVE TreeConcatenates(_)
TreeConcatenates(node) ==
    \/ node.kind = "leaf"
    \/ /\ node.leaf_node_ids = ConcatChildLeafIds(node.children)
       /\ node.size = Len(node.leaf_node_ids)
       /\ \A k \in 1..Len(node.children) : TreeConcatenates(node.children[k])

\* C16: every root, cluster, structural_fold and structural_split node of a
\* returned tree has as leaf_node_ids the concatenation, in child order, of
\* its children's leaf_node_ids, and as size the length of that list.
C16_LeafIdsConcatenateChildren ==
    \A i \in 1..Len(hier.runs) : Built(i) => TreeConcatenates(hier.runs[i].root)

\* C17: two requests over the same nodes, edges, stored embeddings and
\* max_leaf_size return the same tree and the same leaf_layout, also when
\* the process was restarted in between and a node uses the lexical
\* fallback vector.
C17_RepeatedPreviewIsIdentical ==
    (/\ hier.pc = "compared"
     /\ hier.runs[1].rows_before = hier.runs[2].rows_before
     /\ Built(1) /\ Built(2))
        => /\ hier.runs[1].root = hier.runs[2].root
           /\ hier.runs[1].leaf_layout = hier.runs[2].leaf_layout

(***************************************************************************)
(* Properties of the embedding operations.                                 *)
(***************************************************************************)
\* The operation read the stored row of the node.
ReadsStored ==
    \/ embed.op \in {"ensure_node_embedding", "ensure_nodes_embeddings", "_vector_for_node",
                     "rebuild_thread_index"}
    \/ embed.op = "search_nodes" /\ embed.query.len # 0 /\ ~DimMismatch(embed.query)

\* C18: an operation that meets a stored or freshly computed vector whose
\* length is not the configured dimension ends in an error; it never
\* ignores or replaces the vector and carries on.
C18_DimMismatchIsAnError ==
    (/\ embed.pc = "done"
     /\ \/ ReadsStored /\ DimMismatch(embed.stored_before)
        \/ embed.computed /\ DimMismatch(embed.fresh)
        \/ embed.op = "search_nodes" /\ DimMismatch(embed.query))
        => embed.error

(***************************************************************************)
(* C19: in every reachable state the stored active list of the context     *)
(* set holds each node id at most once, whatever sequence of activate,     *)
(* deactivate, reorder, apply_unfold_plan, unfold, split_node,             *)
(* add_resource and delete_node led there from the empty list.             *)
(***************************************************************************)
C19_ActiveListHasNoDuplicates == NoDup(ctx.active)

\* activate was offered an id twice, or one that was active already, and the
\* list it stored holds several ids.
C19_Witness ==
    /\ ctx.last.op = "activate"
    /\ ctx.last.repeat
    /\ Len(ctx.active) >= 3

(***************************************************************************)
(* C20: ordered_unique returns each non-empty string id of its argument    *)
(* exactly once, in the order of the first occurrences, without the       *)
(* non-string and the empty entries, and applied to its own result it      *)
(* returns that result.                                                    *)
(***************************************************************************)
C20_OrderedUniqueIdempotentFirstOccurrence ==
    /\ dedupe.pc \in {"returned", "repeated"} =>
          /\ Range(dedupe.out) = {x \in Range(dedupe.ids) : x > 0}
          /\ NoDup(dedupe.out)
          /\ \A i, j \in 1..Len(dedupe.out) :
                i < j => FirstIndex(dedupe.ids, dedupe.out[i]) < FirstIndex(dedupe.ids, dedupe.out[j])
    /\ dedupe.pc = "repeated" => dedupe.again = dedupe.out

\* Both calls have returned for an argument with an id twice, an entry that
\* is dropped, and two different ids.
C20_Witness ==
    /\ dedupe.pc = "repeated"
    /\ \E i, j \in 1..Len(dedupe.ids) : i # j /\ dedupe.ids[i] = dedupe.ids[j] /\ dedupe.ids[i] > 0
    /\ \E i \in 1..Len(dedupe.ids) : dedupe.ids[i] <= 0
    /\ Len(dedupe.out) >= 2

(***************************************************************************)
(* Termination of expand_closure_from_edges on graphs with cycles.  The    *)
(* body of the function runs on once it is called, so its steps are        *)
(* weakly fair.                                                            *)
(***************************************************************************)
\* A cycle through the three ids, a self-loop beside a cycle of two, every
\* DEPENDS edge between the ids, and a cycle of two with edges of two types.
ThreeCycle == <<Edge(1, 2, "DEPENDS"), Edge(2, 3, "DEPENDS"), Edge(3, 1, "DEPENDS")>>

CyclicEdgeLists ==
    {ThreeCycle,
     <<Edge(1, 1, "DEPENDS")>>,
     <<Edge(1, 2, "DEPENDS"), Edge(2, 1, "DEPENDS"), Edge(2, 2, "DEPENDS")>>,
     [i \in 1..9 |-> Edge(((i - 1) \div 3) + 1, ((i - 1) % 3) + 1, "DEPENDS")],
     <<Edge(1, 2, "DEPENDS"), Edge(1, 2, "HAS_PART"), Edge(2, 1, "HAS_PART"),
       Edge(2, 3, "DEPENDS")>>}

InitTerm ==
    /\ closure \in {NewFrame(s, e, <<"HAS_PART", "DEPENDS">>, m, d) :
                      s \in SeedLists, e \in CyclicEdgeLists, m \in CapChoices,
                      d \in Directions}
    /\ refused = FALSE
    /\ compile = NoCompile
    /\ plan = NoPlan
    /\ apply = NoApply
    /\ hier = NoHier
    /\ embed = NoEmbed
    /\ ctx = NoCtx
    /\ dedupe = NoDedupe

SpecTerm == InitTerm /\ [][Next]_vars /\ WF_vars(Next)

\* A step leaves visited and the queue alone, or sets both to the distinct
\* seeds, or takes the head off the queue, or admits one id that was not
\* visited and puts it at the end of the queue.
AdmitsOnce ==
    /\ closure.visited \subseteq closure'.visited
    /\ \/ closure'.q = closure.q /\ closure'.visited = closure.visited
       \/ /\ closure.pc = "start"
          /\ NoDup(closure'.q)
          /\ closure'.visited = Range(closure'.q)
       \/ /\ closure.q # << >>
          /\ closure'.q = Tail(closure.q)
          /\ closure'.visited = closure.visited
       \/ \E dst \in AllIds \ closure.visited :
             /\ closure'.q = Append(closure.q, dst)
             /\ closure'.visited = closure.visited \cup {dst}

(***************************************************************************)
(* C21 as stated: every call returns, each id is admitted to visited and   *)
(* enqueued at most once, ordered_ids repeats no id, and the queue is      *)
(* empty when the call returns.                                            *)
(***************************************************************************)
C21_TerminatesWithEmptyQueue ==
    /\ [][AdmitsOnce]_vars
    /\ <>Returned
    /\ [](Returned => NoDup(closure.result.ordered_ids) /\ closure.q = << >>)

(***************************************************************************)
(* C21: every call returns, on graphs with cycles and self-loops, in       *)
(* either direction and without a cap; each id is admitted to visited and  *)
(* enqueued at most once; ordered_ids repeats no id; the queue is empty    *)
(* when the call returns unless an offer was refused at the cap, which     *)
(* ends the loop with ids still queued.                                    *)
(***************************************************************************)
C21_TerminatesAdmittingOnce ==
    /\ [][AdmitsOnce]_vars
    /\ <>Returned
    /\ [](Returned => /\ NoDup(closure.result.ordered_ids)
                      /\ closure.q = << >> \/ closure.truncated)

\* A call without a cap, direction both, has returned from the cycle
\* through the three ids with all of them.
C21_Witness ==
    /\ Traversed
    /\ closure.edges = ThreeCycle
    /\ closure.max_nodes = << >> /\ closure.direction = "both"
    /\ Len(closure.result.ordered_ids) = 3
    /\ closure.q = << >>

\* The _offer call a step of the loop makes: the first pending one, while
\* no offer has been refused.
Offering == closure.pc = "loop" /\ ~closure.truncated /\ closure.pending # << >>

\* max_nodes is set, visited has reached it, and the node offered is new.
AtCapWithNewNode ==
    /\ closure.max_nodes # << >>
    /\ Cardinality(closure.visited) >= closure.max_nodes[1]
    /\ Head(closure.pending)[2] \notin closure.visited

\* The frame keeps its visited set, its queue and its trace.
TraversalFrozen ==
    /\ closure'.visited = closure.visited
    /\ closure'.q = closure.q
    /\ closure'.edge_trace = closure.edge_trace

(***************************************************************************)
(* C22: an offer of dst is refused exactly when max_nodes is set, visited  *)
(* has reached it and dst is new; a refusal sets truncated and records     *)
(* nothing, and nothing is admitted or recorded after it; an offer that is *)
(* not refused records its edge, whether or not dst was visited, and       *)
(* admits and enqueues dst when it was new.                                *)
(***************************************************************************)
C22_AdmissionRule ==
    [][/\ Offering /\ AtCapWithNewNode => closure'.truncated /\ TraversalFrozen
       /\ Offering /\ ~AtCapWithNewNode =>
             LET o == Head(closure.pending)
             IN /\ ~closure'.truncated
                /\ closure'.edge_trace =
                      Append(closure.edge_trace,
                             [from |-> o[1], to |-> o[2], type |-> o[3], dir |-> o[4]])
                /\ closure'.visited = closure.visited \cup {o[2]}
                /\ closure'.q = IF o[2] \in closure.visited
                                THEN closure.q ELSE Append(closure.q, o[2])
       /\ closure'.truncated /\ ~closure.truncated => Offering /\ AtCapWithNewNode
       /\ closure.truncated =>
             /\ closure'.truncated /\ TraversalFrozen
             /\ closure'.pc = "done"
             /\ closure'.result.truncated
             /\ closure'.result.edge_trace = Prefix(closure.edge_trace, TraceCap)
             /\ Range(closure'.result.ordered_ids) = closure.visited]_vars

\* A call has returned truncated after an offer that recorded an edge to a
\* node already visited and one that admitted a new node.
C22_Witness ==
    /\ Returned /\ refused /\ closure.result.truncated
    /\ \E i, j \in 1..Len(closure.edge_trace) :
          /\ i < j
          /\ closure.edge_trace[i].to \in Range(closure.seed_order)
          /\ closure.edge_trace[j].to \notin Range(closure.seed_order)

(***************************************************************************)
(* The shape of the clusters of a returned tree (hierarchy.py lines        *)
(* 201-282).                                                               *)
(***************************************************************************)
\* max(2, int(max_leaf_size or 6)), line 415.
EffectiveLeafSize == Max2(2, IF hier.max_leaf_size = 0 THEN 6 ELSE hier.max_leaf_size)

\* A root or cluster node that was bisected: two children, both clusters.
Bisected(node) ==
    /\ Len(node.children) = 2
    /\ \A k \in 1..2 : node.children[k].kind = "cluster" /\ node.children[k].size > 0

\* A root or cluster node whose children are its items: leaves and
\* structural groups.
Terminal(node) == \A k \in 1..Len(node.children) : node.children[k].kind # "cluster"

\* The rule of lines 215-269 at one root or cluster node and below it: the
\* node is terminal when its leaves fit or it has at most two items, and
\* bisected otherwise.
RECURSIVE ClustersFollowRule(_)
ClustersFollowRule(node) ==
    /\ node.kind \in {"root", "cluster"} =>
          IF Terminal(node)
          THEN node.size <= EffectiveLeafSize \/ Len(node.children) <= 2
          ELSE Bisected(node) /\ node.size > EffectiveLeafSize
    /\ node.kind # "leaf" =>
          \A k \in 1..Len(node.children) : ClustersFollowRule(node.children[k])

\* C23: a cluster is terminal exactly when its leaf count is at most
\* max_leaf_size or it has at most two items; every other cluster, one of
\* exactly three items included, has exactly two non-empty child clusters.
C23_TerminalExactlyWhenSmall ==
    \A i \in 1..Len(hier.runs) : Built(i) => ClustersFollowRule(hier.runs[i].root)

(***************************************************************************)
(* The items _apply_structural_grouping hands to the clusterer             *)
(* (hierarchy.py lines 313-364).                                           *)
(***************************************************************************)
\* The selected children of parent_id along the edges of one type.
SelectedChildren(etype, parent_id) ==
    {hier.edges[k].to_id : k \in {j \in 1..Len(hier.edges) :
                                    /\ hier.edges[j].type = etype
                                    /\ hier.edges[j].from_id = parent_id
                                    /\ hier.edges[j].to_id \in SelectedIds}}

\* The pairs of a grouping edge type and a parent the thread's edges name.
ParentKeys ==
    {<<hier.edges[k].type, hier.edges[k].from_id>> :
        k \in {j \in 1..Len(hier.edges) : hier.edges[j].type \in {"HAS_PART", "FOLDS"}}}

\* The pairs that are to make a group: the parent is outside the selection
\* and has two selected children or more.
GroupedKeys ==
    {key \in ParentKeys : /\ key[2] \notin SelectedIds
                          /\ Cardinality(SelectedChildren(key[1], key[2])) >= 2}

\* f"struct:{etype}:{parent_id}", line 356.
StructId(key) == TreeId(IF key[1] = "FOLDS" THEN "struct:FOLDS" ELSE "struct:HAS_PART", 0, key[2])

GroupItems(i) == SelectSeq(hier.runs[i].top_items, LAMBDA it : it.kind # "leaf")
LeafItems(i) == SelectSeq(hier.runs[i].top_items, LAMBDA it : it.kind = "leaf")

\* The nodes the groups of a request hold.
GroupedNodes(i) ==
    UNION {Range(GroupItems(i)[k].leaf_node_ids) : k \in 1..Len(GroupItems(i))}

\* C24: the items hold one group for every pair of a type in {HAS_PART,
\* FOLDS} and a parent outside the selection with two distinct selected
\* children or more, and no other group; a group holds its children as two
\* leaf items or more; the selected nodes in no group are the leaf items,
\* each once.
C24_GroupsExactlyOutsideParentsOfTwo ==
    \A i \in 1..Len(hier.runs) :
        (Built(i) /\ SelectedIds # {}) =>
            LET groups == GroupItems(i)
                leaves == LeafItems(i)
            IN /\ {groups[k].id : k \in 1..Len(groups)} = {StructId(key) : key \in GroupedKeys}
               /\ Len(groups) = Cardinality(GroupedKeys)
               /\ \A k \in 1..Len(groups) :
                     LET child_items == groups[k].children_items
                         key == CHOOSE key \in GroupedKeys : StructId(key) = groups[k].id
                     IN /\ Len(child_items) >= 2
                        /\ \A c \in 1..Len(child_items) : child_items[c].kind = "leaf"
                        /\ NoDup(groups[k].leaf_node_ids)
                        /\ Range(groups[k].leaf_node_ids) = SelectedChildren(key[1], key[2])
                        /\ groups[k].leaf_node_ids =
                              [c \in 1..Len(child_items) |-> child_items[c].leaf_node_ids[1]]
               /\ {leaves[k].leaf_node_ids[1] : k \in 1..Len(leaves)}
                     = SelectedIds \ GroupedNodes(i)
               /\ Len(leaves) = Cardinality(SelectedIds \ GroupedNodes(i))

\* A request whose items hold a group and a leaf, over edges that name a
\* parent that makes no group.
C24_Witness ==
    \E i \in 1..Len(hier.runs) :
        /\ Built(i)
        /\ GroupItems(i) # << >>
        /\ LeafItems(i) # << >>
        /\ ParentKeys \ GroupedKeys # {}

(***************************************************************************)
(* The ids of the clusters of a returned tree (hierarchy.py lines 249-282  *)
(* and 413-422).                                                           *)
(***************************************************************************)
\* The ids of the nodes of a tree that are no leaves, in visiting order.
RECURSIVE NonLeafIds(_)
RECURSIVE NonLeafIdsOfChildren(_)
NonLeafIds(node) ==
    IF node.kind = "leaf" THEN << >>
    ELSE <<node.id>> \o NonLeafIdsOfChildren(node.children)

NonLeafIdsOfChildren(children) ==
    IF children = << >> THEN << >>
    ELSE NonLeafIds(Head(children)) \o NonLeafIdsOfChildren(Tail(children))

\* Whether a node below, or the node itself, has the kind and a cluster as
\* a child.
RECURSIVE HasParentOfCluster(_, _)
HasParentOfCluster(node, kinds) ==
    /\ node.kind # "leaf"
    /\ \/ node.kind \in kinds /\ \E k \in 1..Len(node.children) : node.children[k].kind = "cluster"
       \/ \E k \in 1..Len(node.children) : HasParentOfCluster(node.children[k], kinds)

\* C25: in every returned tree the ids of the root, the clusters and the
\* structural groups are pairwise distinct.
C25_ClusterIdsAreDistinct ==
    \A i \in 1..Len(hier.runs) : Built(i) => NoDup(NonLeafIds(hier.runs[i].root))

\* A returned tree with a structural group that was bisected, or one
\* with a bisection below a bisection.
C25_Witness ==
    \E i \in 1..Len(hier.runs) :
        /\ Built(i)
        /\ \/ HasParentOfCluster(hier.runs[i].root, {"structural_split", "structural_fold"})
           \/ HasParentOfCluster(hier.runs[i].root, {"cluster"})

(***************************************************************************)
(* What stands in for an excluded parent (context_ops.py lines 45-65).     *)
(***************************************************************************)
\* The nodes reached from the nodes of S along parent_to_children.
RECURSIVE Descendants(_, _)
Descendants(S, seen) ==
    LET children == UNION {Range(Explain.parent_to_children[p]) :
                             p \in S \cap DOMAIN Explain.parent_to_children}
        new == children \ seen
    IN IF new = {} THEN seen ELSE Descendants(new, seen \cup new)

\* C26: every excluded parent has a kept node among its children, their
\* children and so on, and a call with a node in active_input_ids keeps a
\* node -- also when parent_id references and HAS_PART edges among the
\* active nodes form a cycle.
C26_ExcludedParentHasKeptDescendant ==
    Compiled =>
        /\ \A p \in Range(Explain.excluded_parent_ids) :
              Descendants({p}, {}) \cap Range(Explain.kept_node_ids) # {}
        /\ Explain.active_input_ids # << >> => Explain.kept_node_ids # << >>

(***************************************************************************)
(* What apply_unfold_seed_selection does to the active list                *)
(* (unfold_planner.py lines 175-218).                                      *)
(***************************************************************************)
\* The state part of C27, over a call that returned.
ActiveListOnlyExtended ==
    Applied =>
        LET before == ordered_unique(apply.active_ids)
            steps == ApplyResult.steps
            added == AddedBefore(steps, Len(steps) + 1)
        IN /\ ApplyResult.next_active_ids = before \o added
           /\ ApplyResult.added_ids = added
           /\ NoDup(ApplyResult.next_active_ids)
           /\ Range(ApplyResult.added_ids) \cap Range(apply.active_ids) = {}
           /\ Range(ApplyResult.added_ids)
                 \subseteq {apply.nodes[i].id : i \in 1..Len(apply.nodes)} \ {0}

\* C27: next_active_ids is the active_ids of the caller, each id once at
\* its first position, followed by the ids added by the accepted seeds in
\* the order of their acceptance; it holds no id twice; added_ids holds
\* ids of known nodes that were not active; the active_ids of the caller
\* are left as they were.
C27_ApplyOnlyExtendsActiveList ==
    /\ []ActiveListOnlyExtended
    /\ [][apply'.active_ids = apply.active_ids]_vars

\* A call over an active list with a repeated id, where two seeds were
\* accepted and each added a node, and a later seed had nothing to add.
C27_Witness ==
    /\ Applied
    /\ ~NoDup(apply.active_ids)
    /\ \E i, j, k \in 1..Len(ApplyResult.steps) :
          /\ i < j /\ j < k
          /\ ApplyResult.steps[i].accepted /\ ApplyResult.steps[i].candidate_add_ids # << >>
          /\ ApplyResult.steps[j].accepted /\ ApplyResult.steps[j].candidate_add_ids # << >>
          /\ ApplyResult.steps[k].candidate_add_ids = << >>
    /\ Len(ApplyResult.next_active_ids) = 3

(***************************************************************************)
(* The planner's recommendation handed to apply_unfold_seed_selection      *)
(* (unfold_planner.py lines 134-161 and 175-218).                          *)
(***************************************************************************)
\* apply_unfold_seed_selection over the recommended_seed_ids of the plan
\* that returned, with the other arguments of the planner call.
ApplyRecommended ==
    /\ plan.pc = "done"
    /\ apply.pc = "idle"
    /\ apply' = [NoApply EXCEPT
                    !.pc = "done",
                    !.seed_node_ids = PlanResult.recommended_seed_ids,
                    !.nodes = plan.nodes,
                    !.edges = plan.edges,
                    !.active_ids = plan.active_ids,
                    !.budget_tokens = plan.budget_tokens,
                    !.cargs = plan.cargs,
                    !.returned = <<apply_unfold_seed_selection(
                                     PlanResult.recommended_seed_ids, plan.nodes,
                                     plan.edges, plan.active_ids, plan.budget_tokens,
                                     plan.cargs)>>]
    /\ UNCHANGED <<closure, refused, compile, plan, hier, embed, ctx, dedupe>>

NextPlanApply == Plan \/ ApplyRecommended

SpecPlanApply == InitPlan /\ [][NextPlanApply]_vars

\* C28: apply_unfold_seed_selection over the recommended_seed_ids of a plan
\* accepts every step, adds the set recommended_added_ids and uses
\* recommended_cost_tokens.
C28_ApplyAgreesWithPlan ==
    (Planned /\ Applied) =>
        /\ \A i \in 1..Len(ApplyResult.steps) : ApplyResult.steps[i].accepted
        /\ Range(ApplyResult.added_ids) = PlanResult.recommended_added_ids
        /\ ApplyResult.used_tokens = PlanResult.recommended_cost_tokens

\* A plan that passed over a candidate for its cost and recommended two
\* seeds, applied.
C28_Witness ==
    /\ Planned /\ Applied
    /\ Len(PlanResult.recommended_seed_ids) >= 2
    /\ Len(PlanResult.candidates) > Len(PlanResult.recommended_seed_ids)
    /\ Len(ApplyResult.steps) >= 2
    /\ ApplyResult.used_tokens > 0

(***************************************************************************)
(* The ContextSetVersion rows of the context set (context_versions.py      *)
(* lines 35-57).  The context set of the handlers above, with version, the *)
(* version column of the ContextSet row, and rows, the ContextSetVersion   *)
(* rows in the order of their insertion, each [version, active_node_ids].  *)
(***************************************************************************)
\* The number of rows the handlers may add to the row of create.
MaxVersions == 2

\* Lines 35-41: latest.version over the rows of the context set, -1 when
\* there is none, plus one.
NextVersion(rows) ==
    IF rows = << >> THEN 0
    ELSE 1 + CHOOSE v \in {rows[i].version : i \in 1..Len(rows)} :
                 \A i \in 1..Len(rows) : rows[i].version <= v

\* Lines 43-57: cs.version and the row added, over the stored list.
snapshot_version(c) ==
    [c EXCEPT !.version = NextVersion(c.rows),
              !.rows = Append(@, [version |-> NextVersion(c.rows),
                                  active_node_ids |-> c.active])]

\* The requests of the handlers with a version history.
VersionRequests == {<<1>>, <<2, 1>>, <<3, 3>>}
VersionSeedRequests == {<<<<1>>, 1200>>, <<<<3, 3>>, 1200>>}

\* context_sets.py lines 70-80: create_context_set, with its snapshot.
InitVersions ==
    /\ closure = NoClosure
    /\ refused = FALSE
    /\ compile = NoCompile
    /\ plan = NoPlan
    /\ apply = NoApply
    /\ hier = NoHier
    /\ embed = NoEmbed
    /\ dedupe = NoDedupe
    /\ ctx \in {snapshot_version(
                   [pc |-> "versioned", nodes |-> Ids, folds |-> {3}, edges |-> edges,
                    active |-> << >>, fresh |-> NewIds,
                    last |-> [op |-> "create", repeat |-> FALSE],
                    version |-> 0, rows |-> << >>]) : edges \in CtxEdgeLists}

CanSnapshot == ctx.pc = "versioned" /\ Len(ctx.rows) <= MaxVersions

\* context_sets.py lines 181-198.
ActivateVersioned ==
    /\ CanSnapshot
    /\ \E node_ids \in VersionRequests :
         \E v \in {validate_node_ids(ctx.nodes, node_ids)} :
            /\ v.ok
            /\ ctx' = snapshot_version(
                          [ctx EXCEPT !.active = activate_nodes(ctx.active, v.valid),
                                      !.last = [op |-> "activate", repeat |-> FALSE]])
    /\ UNCHANGED Others

\* context_sets.py lines 201-213.
DeactivateVersioned ==
    /\ CanSnapshot
    /\ \E node_ids \in VersionRequests :
         \E v \in {validate_node_ids(ctx.nodes, node_ids)} :
            /\ v.ok
            /\ ctx' = snapshot_version(
                          [ctx EXCEPT !.active = deactivate_nodes(ctx.active, v.valid),
                                      !.last = [op |-> "deactivate", repeat |-> FALSE]])
    /\ UNCHANGED Others

\* context_sets.py lines 216-240.
ReorderVersioned ==
    /\ CanSnapshot
    /\ \E node_ids \in VersionRequests :
         \E v \in {validate_node_ids(ctx.nodes, node_ids)} :
            /\ v.ok
            /\ ctx' = snapshot_version(
                          [ctx EXCEPT !.active = reorder_nodes(ctx.active, v.valid),
                                      !.last = [op |-> "reorder", repeat |-> FALSE]])
    /\ UNCHANGED Others

\* context_sets.py lines 272-314.
ApplyUnfoldPlanVersioned ==
    /\ CanSnapshot
    /\ \E req \in VersionSeedRequests :
         \E v \in {validate_node_ids(ctx.nodes, req[1])} :
            /\ v.ok
            /\ \E next_active \in {apply_unfold_plan(ctx.active, v.valid, ctx.nodes, ctx.edges,
                                                     req[2], PlannerClosureArgs)} :
                  ctx' = snapshot_version(
                             [ctx EXCEPT !.active = next_active,
                                         !.last = [op |-> "apply_unfold_plan",
                                                   repeat |-> FALSE]])
    /\ UNCHANGED Others

\* folds.py lines 91-151.
UnfoldVersioned ==
    /\ CanSnapshot
    /\ \E fold_id \in ctx.folds :
         \E expanded_members \in {ExpandedMembers(ctx.edges, fold_id,
                                                  ClosureArgs(DefaultUnfoldEdges, "both", <<12>>))},
            replace_only_fold \in BOOLEAN :
            ctx' = snapshot_version(
                       [ctx EXCEPT !.active = unfold(ctx.active, fold_id, expanded_members,
                                                     replace_only_fold),
                                   !.last = [op |-> "unfold", repeat |-> FALSE]])
    /\ UNCHANGED Others

\* threads.py lines 231-282: the snapshot is taken when the list changed.
DeleteNodeVersioned ==
    /\ CanSnapshot
    /\ \E node_id \in DeleteRequests \cap ctx.nodes :
         \E deleted \in {[ctx EXCEPT !.nodes = @ \ {node_id},
                                     !.folds = @ \ {node_id},
                                     !.edges = SelectSeq(@, LAMBDA e : e.from_id # node_id
                                                                       /\ e.to_id # node_id),
                                     !.active = delete_node(@, node_id),
                                     !.last = [op |-> "delete_node", repeat |-> FALSE]]} :
            ctx' = IF node_id \in Range(ctx.active) THEN snapshot_version(deleted) ELSE deleted
    /\ UNCHANGED Others

\* nodes.py lines 417-529 with body.context_set_id: no snapshot is taken.
SplitNodeVersioned ==
    /\ ctx.pc = "versioned"
    /\ \E parent_id \in SplitRequests \cap ctx.nodes, replace_in_active \in BOOLEAN :
         /\ ctx.fresh # << >>
         /\ \E created_ids \in {SubSeq(ctx.fresh, 1, 1)} :
               ctx' = [ctx EXCEPT !.nodes = @ \cup Range(created_ids),
                                  !.edges = @ \o SplitEdges(parent_id, created_ids),
                                  !.fresh = Tail(@),
                                  !.active = split_node(@, parent_id, created_ids,
                                                        replace_in_active),
                                  !.last = [op |-> "split_node", repeat |-> FALSE]]
    /\ UNCHANGED Others

\* messages.py lines 58-123 with body.auto_activate: no snapshot is taken.
AddResourceVersioned ==
    /\ ctx.pc = "versioned"
    /\ ctx.fresh # << >>
    /\ ctx' = [ctx EXCEPT !.nodes = @ \cup {Head(ctx.fresh)},
                          !.fresh = Tail(@),
                          !.active = add_resource(@, Head(ctx.fresh)),
                          !.last = [op |-> "add_resource", repeat |-> FALSE]]
    /\ UNCHANGED Others

NextVersions ==
    \/ ActivateVersioned
    \/ DeactivateVersioned
    \/ ReorderVersioned
    \/ ApplyUnfoldPlanVersioned
    \/ UnfoldVersioned
    \/ DeleteNodeVersioned
    \/ SplitNodeVersioned
    \/ AddResourceVersioned

SpecVersions == InitVersions /\ [][NextVersions]_vars

\* The row of the highest version.
LatestRow ==
    ctx.rows[CHOOSE i \in 1..Len(ctx.rows) :
                \A j \in 1..Len(ctx.rows) : ctx.rows[j].version <= ctx.rows[i].version]

\* C29: after every handler that writes the active list, the row of the
\* highest version holds the stored active list, and the version of the
\* context set is the version of that row.
C29_LatestRowIsActiveList ==
    ctx.pc = "versioned" =>
        /\ LatestRow.active_node_ids = ctx.active
        /\ ctx.version = LatestRow.version

(***************************************************************************)
(* Two requests on one context set, each in a session of its own           *)
(* (context_versions.py lines 35-57 under the read committed isolation of  *)
(* the database of db.py line 7).  A request that changed the stored list  *)
(* writes the ContextSet row when the SELECT of line 35 flushes the        *)
(* session, and holds the lock of that row until it commits; the others    *)
(* write the row when they commit.  No statement locks the version rows,   *)
(* and models.py lines 71-80 puts no unique constraint on version.         *)
(* rows are the committed ContextSetVersion rows, holder the session that  *)
(* holds the row lock (0: none).                                           *)
(***************************************************************************)
Sessions == {1, 2}

\* The number of committed rows up to which a request is started.
MaxRows == 4

NoRequest == [pc |-> "idle", next_version |-> 0]

InitSessions ==
    /\ closure = NoClosure
    /\ refused = FALSE
    /\ compile = NoCompile
    /\ plan = NoPlan
    /\ apply = NoApply
    /\ hier = NoHier
    /\ embed = NoEmbed
    /\ dedupe = NoDedupe
    /\ ctx = [pc |-> "racing", version |-> 0, holder |-> 0,
              rows |-> <<[version |-> 0, session |-> 0]>>,
              reqs |-> [p \in Sessions |-> NoRequest]]

\* Lines 35-41: the flush and the SELECT of the latest row; changed tells
\* whether the handler changed active_node_ids_json before.
ReadLatest(p) ==
    /\ ctx.pc = "racing"
    /\ ctx.reqs[p].pc = "idle"
    /\ Len(ctx.rows) < MaxRows
    /\ \E changed \in BOOLEAN :
         /\ changed => ctx.holder \in {0, p}
         /\ ctx' = [ctx EXCEPT !.holder = IF changed THEN p ELSE @,
                               !.reqs[p] = [pc |-> "read",
                                            next_version |-> NextVersion(ctx.rows)]]
    /\ UNCHANGED Others

\* Lines 43-57 and the commit of the handler: cs.version is written, the
\* row inserted, the lock released.
CommitSnapshot(p) ==
    /\ ctx.pc = "racing"
    /\ ctx.reqs[p].pc = "read"
    /\ ctx.holder \in {0, p}
    /\ ctx' = [ctx EXCEPT !.version = ctx.reqs[p].next_version,
                          !.holder = 0,
                          !.rows = Append(@, [version |-> ctx.reqs[p].next_version,
                                              session |-> p]),
                          !.reqs[p] = NoRequest]
    /\ UNCHANGED Others

NextSessions == \E p \in Sessions : ReadLatest(p) \/ CommitSnapshot(p)

SpecSessions == InitSessions /\ [][NextSessions]_vars

\* C30: the rows of a context set carry the versions 0, 1, ..., n in the
\* order of their insertion, each once, also when the reads and the
\* inserts of two requests interleave.
C30_VersionsUniqueAndGapFree ==
    ctx.pc = "racing" => \A i \in 1..Len(ctx.rows) : ctx.rows[i].version = i - 1

=============================================================================
